---- MODULE Spec2Model ----
(***************************************************************************)
(* Model of the CSV validation engine: the field validators, the          *)
(* regulation registry, the sequential /validate handler, the chunked     *)
(* parallel validator (OptimizedDataProcessor) and the row validator      *)
(* validate_single_row.                                                    *)
(*                                                                         *)
(* A Python str is a sequence of one-character strings; a dict is a       *)
(* sequence of <<key, value>> pairs with unique keys in insertion order.  *)
(* A formatted message (f-string) is the sequence of its pieces.          *)
(***************************************************************************)
EXTENDS Integers, Sequences, FiniteSets, TLC

VARIABLES
    pid_in,      \* probe: personalid argument handed to a personalid validator
    cit_in,      \* probe: citizenship argument
    pid_out,     \* probe: [fn, result] of the last validator call, or NoCall
    probe_in,    \* probe: argument of a row-level or registry-level call
    probe_out,   \* probe: [fn, result] of the last such call, or NoCall
    file,        \* the uploaded CSV: [columns, rows]
    session,     \* Flask session: required_columns, column_mappings, and the errors file
                 \* that errors_file_id names
    pc,          \* position of the running request handler
    req,         \* JSON body of the request being served
    loc,         \* local variables of the running /validate handler
    par,         \* state of validate_dataframe_parallel (chunks, pool, results)
    report,      \* response of the last completed validation request
    prev,        \* request and response of the run before the last one
    runs         \* number of completed validation requests

vars == <<pid_in, cit_in, pid_out, probe_in, probe_out, file, session, pc, req, loc, par, report, prev, runs>>

probeVars == <<pid_in, cit_in, pid_out, probe_in, probe_out>>
runVars == <<file, session, pc, req, loc, par, report, prev, runs>>

----------------------------------------------------------------------------
(* Bounds *)

MaxRows == 3        \* rows in an uploaded file
MaxRuns == 2        \* validation requests served in one session
ReadChunkRows == 2  \* rows per read chunk of /validate (stands for chunk_size = 5000)
MaxChunkSize == 2   \* largest chunk_size of the OptimizedDataProcessor
MaxWorkers == 2     \* n_workers of the OptimizedDataProcessor
MaxLong == 11       \* rows in a long file of one-column rows

----------------------------------------------------------------------------
(* Python str operations on character sequences *)

None == "None"

Digits == {"0", "1", "2", "3", "4", "5", "6", "7", "8", "9"}

UpperSeq == <<"A", "B", "C", "D", "E", "F", "G", "H", "I", "J", "K", "L", "M",
              "N", "O", "P", "Q", "R", "S", "T", "U", "V", "W", "X", "Y", "Z">>

LowerSeq == <<"a", "b", "c", "d", "e", "f", "g", "h", "i", "j", "k", "l", "m",
              "n", "o", "p", "q", "r", "s", "t", "u", "v", "w", "x", "y", "z">>

UpperLetters == {UpperSeq[i] : i \in 1..26}

LowerLetters == {LowerSeq[i] : i \in 1..26}

Letters == UpperLetters \cup LowerLetters

\* characters str.strip() removes and the regex class \s matches
Whitespace == {" ", "\t", "\n", "\r"}

UpperChar(c) == IF c \in LowerLetters
                THEN UpperSeq[CHOOSE i \in 1..26 : LowerSeq[i] = c]
                ELSE c

LowerChar(c) == IF c \in UpperLetters
                THEN LowerSeq[CHOOSE i \in 1..26 : UpperSeq[i] = c]
                ELSE c

Upper(s) == [i \in 1..Len(s) |-> UpperChar(s[i])]

Lower(s) == [i \in 1..Len(s) |-> LowerChar(s[i])]

Strip(s) ==
    LET keep == {i \in 1..Len(s) : s[i] \notin Whitespace}
    IN  IF keep = {} THEN <<>>
        ELSE LET lo == CHOOSE i \in keep : \A j \in keep : i <= j
                 hi == CHOOSE i \in keep : \A j \in keep : j <= i
             IN  SubSeq(s, lo, hi)

AllIn(s, lo, hi, class) == \A i \in lo..hi : s[i] \in class

Rep(c, n) == [i \in 1..n |-> c]

----------------------------------------------------------------------------
(* validators_common.py / validators_peru.py: personalid *)

PersonalIdClass == Letters \cup Digits \cup {"-"} \cup Whitespace

\* PERSONAL_ID_PATTERN = ^[A-Za-z0-9\-\s]+$ on a stripped string
MatchPersonalIdPattern(s) == Len(s) >= 1 /\ AllIn(s, 1, Len(s), PersonalIdClass)

\* ^\d{8}[A-Z]$
MatchDNI(s) == Len(s) = 9 /\ AllIn(s, 1, 8, Digits) /\ s[9] \in UpperLetters

\* ^[XYZ]\d{7}[A-Z]$
MatchNIE(s) ==
    Len(s) = 9 /\ s[1] \in {"X", "Y", "Z"} /\ AllIn(s, 2, 8, Digits) /\ s[9] \in UpperLetters

validate_personalid(personalid) ==
    IF personalid = <<>> THEN "Personal ID is empty"
    ELSE LET p == Strip(personalid)
         IN  IF Len(p) < 5 THEN "Personal ID too short"
             ELSE IF Len(p) > 20 THEN "Personal ID too long"
             ELSE IF ~MatchPersonalIdPattern(p) THEN "Personal ID contains invalid characters"
             ELSE None

validate_idcardno(idcardno) ==
    IF idcardno = <<>> THEN "ID card number is empty"
    ELSE LET p == Strip(idcardno)
         IN  IF Len(p) < 5 THEN "ID card number too short"
             ELSE IF Len(p) > 20 THEN "ID card number too long"
             ELSE IF ~MatchPersonalIdPattern(p) THEN "ID card number contains invalid characters"
             ELSE None

PeruPersonalidNoUpper(personalid, citizenship) ==
    IF citizenship = <<>> THEN "Citizenship is required for PersonalID validation"
    ELSE IF Upper(Strip(citizenship)) = <<"E", "S">>
         THEN IF personalid = <<>>
              THEN "PersonalID is mandatory for Spanish residents (DNI or NIE required)"
              ELSE IF MatchDNI(Strip(personalid)) \/ MatchNIE(Strip(personalid)) THEN None
              ELSE "Invalid Spanish ID format. Must be DNI (8 digits + letter) or NIE (X/Y/Z + 7 digits + letter)"
         ELSE validate_personalid(personalid)

PeruPersonalidMinSix(personalid, citizenship) ==
    IF citizenship = <<>> THEN "Citizenship is required for PersonalID validation"
    ELSE IF Upper(Strip(citizenship)) = <<"E", "S">>
         THEN IF personalid = <<>>
              THEN "PersonalID is mandatory for Spanish residents (DNI or NIE required)"
              ELSE IF MatchDNI(Upper(Strip(personalid))) \/ MatchNIE(Upper(Strip(personalid)))
                   THEN None
              ELSE "Invalid Spanish ID format. Must be DNI (8 digits + letter) or NIE (X/Y/Z + 7 digits + letter)"
         ELSE IF personalid = <<>> THEN None
              ELSE IF Len(Strip(personalid)) < 6 THEN "PersonalID is too short (minimum 5 characters)"
              ELSE None

validate_peru_personalid(personalid, citizenship) ==
    IF citizenship = <<>> THEN "Citizenship is required for PersonalID validation"
    ELSE LET c == Upper(Strip(citizenship))
         IN  IF c = <<"E", "S">>
             THEN IF personalid = <<>>
                  THEN "PersonalID is mandatory for Spanish residents (DNI or NIE required)"
                  ELSE LET p == Upper(Strip(personalid))
                       IN  IF MatchDNI(p) THEN None
                           ELSE IF MatchNIE(p) THEN None
                           ELSE "Invalid Spanish ID format. Must be DNI (8 digits + letter) or NIE (X/Y/Z + 7 digits + letter)"
             ELSE IF personalid = <<>> THEN None
                  ELSE LET p == Strip(personalid)
                       IN  IF Len(p) < 5 THEN "PersonalID is too short (minimum 5 characters)"
                           ELSE IF Len(p) > 20 THEN "PersonalID is too long (maximum 20 characters)"
                           ELSE IF ~MatchPersonalIdPattern(p) THEN "PersonalID contains invalid characters"
                           ELSE None

validate_colombia_personalid(personalid) == validate_personalid(personalid)

validate_ims_personalid(personalid) == validate_personalid(personalid)

----------------------------------------------------------------------------
(* Python dict: a sequence of <<key, value>> pairs, keys unique, insertion order *)

Has(d, k) == \E i \in 1..Len(d) : d[i][1] = k

Get(d, k, default) ==
    IF Has(d, k) THEN d[CHOOSE i \in 1..Len(d) : d[i][1] = k][2] ELSE default

Put(d, k, v) ==
    IF Has(d, k)
    THEN [i \in 1..Len(d) |-> IF d[i][1] = k THEN <<k, v>> ELSE d[i]]
    ELSE Append(d, <<k, v>>)

Keys(d) == [i \in 1..Len(d) |-> d[i][1]]

\* str.lower() of a column name; the names that are not all lower case
NameLowerTable == << <<"Email", "email">>, <<"Correo", "correo">>, <<"CORREO", "correo">>,
                     <<"EMAIL", "email">>, <<"PersonalID", "personalid">>,
                     <<"DRIVERLICENSENO", "driverlicenseno">> >>

NameLower(name) == Get(NameLowerTable, name, name)

NamesLower(names) == [i \in 1..Len(names) |-> NameLower(names[i])]

InList(x, list) == \E i \in 1..Len(list) : list[i] = x

----------------------------------------------------------------------------
(* validators_common.py: the other field validators and the cross-field checks *)

EmailLocalClass ==
    Letters \cup Digits \cup
    {".", "_", "%", "$", "+", ",", "-", "/", ":", ";", "<", "=", ">", "?", "@",
     "[", "]", "^", "{", "|", "}", "~"}

EmailDomainClass == Letters \cup Digits \cup {".", "-"}

\* EMAIL_PATTERN: a local part over a class in which '+-a-acute' is a range
\* (all ASCII from '+' on), then '@', a domain over [a-zA-Z0-9.-], a dot and
\* two or more letters
MatchEmailPattern(s) ==
    \E i \in 2..Len(s) : \E j \in (i + 2)..(Len(s) - 2) :
        /\ s[i] = "@"
        /\ AllIn(s, 1, i - 1, EmailLocalClass)
        /\ AllIn(s, i + 1, j - 1, EmailDomainClass)
        /\ s[j] = "."
        /\ AllIn(s, j + 1, Len(s), Letters)

is_valid_email(email) ==
    IF email = <<>> THEN "Email is empty"
    ELSE LET e == Strip(email)
         IN  IF ~(\E i \in 1..Len(e) : e[i] = "@") THEN "Email missing @ symbol"
             ELSE IF ~MatchEmailPattern(e) THEN "Email has invalid format"
             ELSE None

disposable_domains == { <<"t", "e", "m", "p", "m", "a", "i", "l", ".", "o", "r", "g">>,
                        <<"1", "0", "m", "i", "n", "u", "t", "e", "m", "a", "i", "l", ".", "c", "o", "m">>,
                        <<"g", "u", "e", "r", "r", "i", "l", "l", "a", "m", "a", "i", "l", ".", "c", "o", "m">> }

\* email.split('@')[1]
EmailDomain(e) ==
    LET ats == {i \in 1..Len(e) : e[i] = "@"}
        first == CHOOSE i \in ats : \A j \in ats : i <= j
        rest == {i \in ats : i > first}
        stop == IF rest = {} THEN Len(e) + 1
                ELSE CHOOSE i \in rest : \A j \in rest : i <= j
    IN  SubSeq(e, first + 1, stop - 1)

enhanced_email_validation(email) ==
    IF is_valid_email(email) # None THEN is_valid_email(email)
    ELSE IF EmailDomain(Lower(Strip(email))) \in disposable_domains
         THEN "Disposable email addresses are not allowed"
         ELSE None

\* COUNTRY_CODE_PATTERN = ^[A-Z]{2}$
MatchCountryCodePattern(s) == Len(s) = 2 /\ AllIn(s, 1, 2, UpperLetters)

validate_citizenship(citizenship) ==
    IF citizenship = <<>> THEN "Citizenship is empty"
    ELSE IF ~MatchCountryCodePattern(Upper(Strip(citizenship)))
         THEN "Citizenship must be 2 uppercase letters"
         ELSE None

validate_country_code(code) ==
    IF code = <<>> THEN "Country code is empty"
    ELSE IF ~MatchCountryCodePattern(Upper(Strip(code)))
         THEN "Country code must be 2 uppercase letters"
         ELSE None

check_for_crlf(value) ==
    IF \E i \in 1..Len(value) : value[i] \in {"\r", "\n"}
    THEN "Contains line breaks (potential CRLF injection)"
    ELSE None

\* returns the list of error messages, each a sequence of message pieces
\* ZIP_CODE_PATTERN: ^[a-zA-Z0-9\s\-]{3,10}$
\* PHONE_PATTERN: ^\+?\d[\d\s\-\(\)]{8,20}$
MatchPhonePattern(s) ==
    LET body == IF s # <<>> /\ s[1] = "+" THEN Tail(s) ELSE s
    IN  /\ Len(body) >= 9
        /\ Len(body) <= 21
        /\ body[1] \in Digits
        /\ AllIn(body, 2, Len(body), Digits \cup Whitespace \cup {"-", "(", ")"})

\* validators.py: only digits and '+', an empty value passes
LegacyPhoneNumber(phone) ==
    IF phone = <<>> THEN None
    ELSE IF \E i \in 1..Len(Strip(phone)) : Strip(phone)[i] = " " THEN "Phone contains spaces"
    ELSE IF ~AllIn(Strip(phone), 1, Len(Strip(phone)), Digits \cup {"+"})
    THEN "Phone contains invalid characters"
    ELSE None

validate_phone_number(phone) ==
    IF phone = <<>> THEN "Phone number is empty"
    ELSE IF ~MatchPhonePattern(Strip(phone)) THEN "Phone number has invalid format"
    ELSE None

MatchZipCodePattern(s) == Len(s) >= 3 /\ Len(s) <= 10 /\ AllIn(s, 1, Len(s), PersonalIdClass)

validate_zip_code(zip_code) ==
    IF zip_code = <<>> THEN "Zip code is empty"
    ELSE IF ~MatchZipCodePattern(Strip(zip_code)) THEN "Zip code has invalid format"
    ELSE None

validate_address_fields(row) ==
    LET address == Get(row, "address", <<>>)
        city == Get(row, "city", <<>>)
    IN  IF address # <<>> /\ city = <<>> THEN << <<"Address provided but city is missing">> >>
        ELSE IF city # <<>> /\ address = <<>> THEN << <<"City provided but address is missing">> >>
        ELSE <<>>

language_country_map ==
    << << <<"e", "s">>, { <<"E","S">>, <<"M","X">>, <<"A","R">>, <<"C","O">>, <<"P","E">>, <<"C","L">>, <<"V","E">> } >>,
       << <<"e", "n">>, { <<"U","S">>, <<"G","B">>, <<"C","A">>, <<"A","U">>, <<"N","Z">> } >>,
       << <<"f", "r">>, { <<"F","R">>, <<"C","A">>, <<"B","E">>, <<"C","H">> } >>,
       << <<"d", "e">>, { <<"D","E">>, <<"A","T">>, <<"C","H">> } >>,
       << <<"i", "t">>, { <<"I","T">>, <<"C","H">> } >>,
       << <<"p", "t">>, { <<"P","T">>, <<"B","R">> } >> >>

validate_language_country_consistency(row) ==
    LET language == Get(row, "languagecode", <<>>)
        country == Get(row, "countrycode", <<>>)
    IN  IF language # <<>> /\ country # <<>>
        THEN LET l == Lower(Strip(language))
                 c == Upper(Strip(country))
             IN  IF Has(language_country_map, l) /\ c \notin Get(language_country_map, l, {})
                 THEN << <<"Language '">> \o l \o <<"' not typically used in country '">> \o c \o <<"'">> >>
                 ELSE <<>>
        ELSE <<>>

\* validators_peru.py
\* a documents check that does not accept personalid as a document
PeruDocumentsWithoutPersonalid(row) ==
    LET citizenship == Get(row, "citizenship", <<>>)
        provided(k) == Strip(Get(row, k, <<>>)) # <<>>
    IN  IF citizenship = <<>> THEN None
        ELSE IF Upper(Strip(citizenship)) = <<"E", "S">> THEN None
        ELSE IF ~(provided("idcardno") \/ provided("passportid")
                  \/ provided("DRIVERLICENSENO"))
             THEN "Non-residents must provide at least one document: ID card, passport, driver's license, or personal ID"
             ELSE None

validate_peru_documents(row) ==
    LET citizenship == Get(row, "citizenship", <<>>)
        provided(k) == Strip(Get(row, k, <<>>)) # <<>>
    IN  IF citizenship = <<>> THEN None
        ELSE IF Upper(Strip(citizenship)) = <<"E", "S">> THEN None
        ELSE IF ~(provided("idcardno") \/ provided("passportid")
                  \/ provided("DRIVERLICENSENO") \/ provided("personalid"))
             THEN "Non-residents must provide at least one document: ID card, passport, driver's license, or personal ID"
             ELSE None

\* PERU_ZIP: ^LIMA\d{2}$ on the upper-cased value, ^\d{5}$ or ^\d{6}$
validate_peru_zip(zip_code) ==
    IF zip_code = <<>> THEN "Zip code is empty"
    ELSE LET z == Strip(zip_code)
         IN  IF Len(z) = 6 /\ SubSeq(Upper(z), 1, 4) = <<"L", "I", "M", "A">> /\ AllIn(z, 5, 6, Digits)
             THEN None
             ELSE IF Len(z) \in {5, 6} /\ AllIn(z, 1, Len(z), Digits) THEN None
             ELSE "Peru zip code must be 5 digits, 6 digits, or LIMA format (LIMAxx)"

----------------------------------------------------------------------------
(* app.py: REGULATIONS, and validator_registry.py *)

REGULATIONS ==
    << <<"CO", [name |-> "Columbia",
                required_fields |-> <<"code", "firstname", "lastname", "email", "birthdate",
                    "address", "city", "countrycode", "zip", "cellphone", "gender", "username",
                    "birthdate", "citizenship", "regioncode", "provincecode", "province",
                    "personalid", "idcardno", "birthcity", "birthcountrycode">>]>>,
       <<"PE", [name |-> "Peru",
                required_fields |-> <<"code", "firstname", "lastname", "email", "birthdate",
                    "address", "city", "countrycode", "zip", "username", "citizenship",
                    "provincecode", "province", "personalid", "idcardno", "regioncode">>]>>,
       <<"IMS", [name |-> "Basic",
                 required_fields |-> <<"code", "email", "firstname", "lastname">>]>> >>

DefaultRequiredColumns ==
    <<"code", "firstname", "lastname", "email", "birthdate", "address", "city", "phone",
      "cellphone", "countrycode", "signuplanguagecode", "currencycode", "username", "zip",
      "signupdate", "password">>

NoRegulation == [name |-> None, required_fields |-> <<>>]

\* selected_regulation.get('name') if selected_regulation else None;
\* sel is a key of REGULATIONS, or None
RegulationName(sel) == Get(REGULATIONS, sel, NoRegulation).name

NoConditional == [conditional |-> FALSE, depends_on |-> None]

regulation_validators ==
    << <<"Peru", << <<"personalid", "validate_peru_personalid">>,
                    <<"documents", "validate_peru_documents">>,
                    <<"zip", "validate_peru_zip">>,
                    <<"conditional_fields",
                      << <<"personalid", [conditional |-> TRUE, depends_on |-> "citizenship"]>> >> >> >> >>,
       <<"Colombia", << <<"personalid", "validate_colombia_personalid">> >> >>,
       <<"IMS", << <<"personalid", "validate_ims_personalid">> >> >> >>

\* a registry that hands out the Peru validators for a regulation it does not know
GetValidatorDefaultsToPeru(regulation_name, validator_type) ==
    Get(Get(regulation_validators, regulation_name,
            Get(regulation_validators, "Peru", <<>>)), validator_type, None)

get_validator(regulation_name, validator_type) ==
    Get(Get(regulation_validators, regulation_name, <<>>), validator_type, None)

has_conditional_validation(regulation_name, field_name) ==
    Get(Get(Get(regulation_validators, regulation_name, <<>>), "conditional_fields", <<>>),
        field_name, NoConditional)

\* the personalid branch of the dispatch for a regulation of that name:
\* registry override, conditional dependency, default validator
PersonalidByName(value, row, regulation_name) ==
    LET personalid_validator == get_validator(regulation_name, "personalid")
        conditional_info == has_conditional_validation(regulation_name, "personalid")
    IN  IF personalid_validator = "validate_peru_personalid"
        THEN IF conditional_info.conditional
             THEN validate_peru_personalid(value, Get(row, conditional_info.depends_on, <<>>))
             ELSE validate_peru_personalid(value, <<>>)
        ELSE IF personalid_validator = "validate_colombia_personalid"
        THEN validate_colombia_personalid(value)
        ELSE IF personalid_validator = "validate_ims_personalid"
        THEN validate_ims_personalid(value)
        ELSE validate_personalid(value)

PersonalidError(value, row, sel) == PersonalidByName(value, row, RegulationName(sel))

\* the zip branch of the dispatch for a regulation of that name
ZipByName(value, regulation_name) ==
    IF get_validator(regulation_name, "zip") = "validate_peru_zip"
    THEN validate_peru_zip(value)
    ELSE validate_zip_code(value)

ZipError(value, sel) == ZipByName(value, RegulationName(sel))

ZipFields == {"zipcode", "postalcode", "zip", "postcode"}

\* the documents check of the cross-field pass
DocumentError(row, sel) ==
    IF sel # None /\ get_validator(RegulationName(sel), "documents") = "validate_peru_documents"
    THEN validate_peru_documents(row)
    ELSE None

----------------------------------------------------------------------------
(* parallel_validator.py: validate_single_row *)

\* a message with a prefix, or no message; None is the empty sequence
Prefixed(prefix, error) ==
    IF error = None THEN <<>> ELSE IF prefix = "" THEN <<error>> ELSE <<prefix, error>>

enhance_error_with_value(error_message, field_name, field_value) ==
    IF error_message = <<>> THEN <<>>
    ELSE error_message \o <<": '">> \o Strip(field_value) \o <<"'">>

validate_field(field_lower, value, row_data, selected_regulation) ==
    IF field_lower = "email" THEN Prefixed("", enhanced_email_validation(value))
    ELSE IF field_lower = "personalid"
    THEN Prefixed("personalid: ", PersonalidError(value, row_data, selected_regulation))
    ELSE IF field_lower = "idcardno" THEN Prefixed("idcardno: ", validate_idcardno(value))
    ELSE IF field_lower = "citizenship" THEN Prefixed("citizenship: ", validate_citizenship(value))
    ELSE IF field_lower = "address" THEN Prefixed("address: ", check_for_crlf(value))
    ELSE IF field_lower = "countrycode" THEN Prefixed("countrycode: ", validate_country_code(value))
    ELSE IF field_lower \in {"phone", "cellphone"}
    THEN IF validate_phone_number(value) = None THEN <<>>
         ELSE <<field_lower, ": ", validate_phone_number(value)>>
    ELSE IF field_lower \in ZipFields
    THEN IF ZipError(value, selected_regulation) = None THEN <<>>
         ELSE <<field_lower, ": ", ZipError(value, selected_regulation)>>
    ELSE <<>>

validate_cross_fields(row_data, selected_regulation) ==
    validate_address_fields(row_data)
    \o validate_language_country_consistency(row_data)
    \o (IF DocumentError(row_data, selected_regulation) = None THEN <<>>
        ELSE << <<DocumentError(row_data, selected_regulation)>> >>)

CodeValue(row) == Get(row, "code", <<"N", "/", "A">>)

NewRow == [errors |-> <<>>, is_valid |-> TRUE, calls |-> <<>>, counted |-> <<>>]

\* row_errors.append(...) without is_valid = False
RowErrorKeepsValid(acc, message, key) ==
    [acc EXCEPT !.errors = Append(@, message), !.counted = Append(@, key)]

\* row_errors.append(...); is_valid = False  (key: the error_counter key)
RowError(acc, message, key) ==
    [acc EXCEPT !.errors = Append(@, message), !.is_valid = FALSE, !.counted = Append(@, key)]

RECURSIVE RowErrors(_, _, _, _)
RowErrors(acc, code_value, errors, i) ==
    IF i > Len(errors) THEN acc
    ELSE RowErrors(RowError(acc, code_value \o <<" ">> \o errors[i], errors[i]),
                   code_value, errors, i + 1)

Invoked(acc, field_lower) == [acc EXCEPT !.calls = Append(@, field_lower)]

\* the required-but-missing branch reports nothing and falls through to the validator
SingleRowFieldNoRequiredCheck(acc, row_data, field, required_columns_lower, selected_regulation) ==
    LET value == Get(row_data, field, <<>>)
        error == validate_field(NameLower(field), value, row_data, selected_regulation)
        full == CodeValue(row_data) \o <<" ", field, ": ">>
                \o enhance_error_with_value(error, field, value)
    IN  IF ~InList(NameLower(field), required_columns_lower) THEN acc
        ELSE IF error # <<>> THEN RowError(Invoked(acc, NameLower(field)), full, full)
        ELSE Invoked(acc, NameLower(field))

\* one iteration of "for field in row_data.keys()"
SingleRowField(acc, row_data, field, required_columns_lower, selected_regulation) ==
    LET value == Get(row_data, field, <<>>)
        field_lower == NameLower(field)
        code_value == CodeValue(row_data)
        error == validate_field(field_lower, value, row_data, selected_regulation)
        full == code_value \o <<" ", field, ": ">> \o enhance_error_with_value(error, field, value)
        checked == IF error # <<>> THEN RowError(Invoked(acc, field_lower), full, full)
                   ELSE Invoked(acc, field_lower)
        spanish == code_value \o <<" ", field, " is required for Spanish residents">>
        missing == code_value \o <<" ", field, " is required but missing">>
    IN  IF ~InList(field_lower, required_columns_lower) THEN acc
        ELSE IF field_lower = "personalid" /\ selected_regulation # None
                /\ RegulationName(selected_regulation) = "Peru"
        THEN IF Upper(Strip(Get(row_data, "citizenship", <<>>))) = <<"E", "S">>
                /\ Strip(value) = <<>>
             THEN RowError(acc, spanish, spanish)
             ELSE IF Strip(value) = <<>> THEN acc
             ELSE checked
        ELSE IF Strip(value) = <<>> THEN RowError(acc, missing, missing)
        ELSE checked

RECURSIVE SingleRowFields(_, _, _, _, _)
SingleRowFields(acc, row_data, i, required_columns_lower, selected_regulation) ==
    IF i > Len(row_data) THEN acc
    ELSE SingleRowFields(
            SingleRowField(acc, row_data, row_data[i][1], required_columns_lower, selected_regulation),
            row_data, i + 1, required_columns_lower, selected_regulation)

RowResult(acc, row_data, row_index) ==
    [row |-> row_index + 1, code |-> CodeValue(row_data), valid |-> acc.is_valid,
     errors |-> acc.errors, calls |-> acc.calls, counted |-> acc.counted]

\* a row validator that runs the cross-field checks only on a row without field errors
SingleRowShortCircuit(row_data, row_index, required_columns, selected_regulation) ==
    LET fields == SingleRowFields(NewRow, row_data, 1, NamesLower(required_columns),
                                  selected_regulation)
        crossed == IF fields.errors # <<>> THEN fields
                   ELSE RowErrors(fields, CodeValue(row_data),
                                  validate_cross_fields(row_data, selected_regulation), 1)
    IN  RowResult(crossed, row_data, row_index)

validate_single_row(row_data, row_index, required_columns, selected_regulation) ==
    LET fields == SingleRowFields(NewRow, row_data, 1, NamesLower(required_columns),
                                  selected_regulation)
        crossed == RowErrors(fields, CodeValue(row_data),
                             validate_cross_fields(row_data, selected_regulation), 1)
    IN  RowResult(crossed, row_data, row_index)

----------------------------------------------------------------------------
(* app.py: the /validate handler, its duplicate tracker and its row loop *)

TrackedFields == <<"email", "username", "personalid", "idcardno">>

DuplicateLabel == [email |-> "Duplicate email", username |-> "Duplicate username",
                   personalid |-> "Duplicate personal ID",
                   idcardno |-> "Duplicate ID card number"]

EmptyTracking ==
    [indices |-> [email |-> <<>>, username |-> <<>>, personalid |-> <<>>, idcardno |-> <<>>],
     duplicates |-> [email |-> <<>>, username |-> <<>>, personalid |-> <<>>, idcardno |-> <<>>]]

\* str(row[f]).strip().lower() for email and username, str(row[f]).strip() for the ids
TrackerKey(field, raw) ==
    IF field \in {"email", "username"} THEN Lower(Strip(raw)) ELSE Strip(raw)

\* "Track emails" ... "Track ID card numbers", for one row and one field
TrackField(tr, row, field, current_idx) ==
    IF Has(row, field) /\ Get(row, field, <<>>) # <<>>
    THEN LET v == TrackerKey(field, Get(row, field, <<>>))
             seen == tr.indices[field]
             dups == tr.duplicates[field]
             opened == IF Has(dups, v) THEN dups ELSE Put(dups, v, <<Get(seen, v, 0)>>)
         IN  IF Has(seen, v)
             THEN [tr EXCEPT !.duplicates[field] = Put(opened, v, Append(Get(opened, v, <<>>), current_idx))]
             ELSE [tr EXCEPT !.indices[field] = Put(seen, v, current_idx)]
    ELSE tr

TrackRow(tr, row, current_idx) ==
    TrackField(TrackField(TrackField(TrackField(tr, row, "email", current_idx),
        row, "username", current_idx), row, "personalid", current_idx),
        row, "idcardno", current_idx)

RECURSIVE TrackChunk(_, _, _, _)
TrackChunk(tr, mapped_chunk, row_idx, i) ==
    IF i > Len(mapped_chunk) THEN tr
    ELSE TrackChunk(TrackRow(tr, mapped_chunk[i], row_idx + i - 1), mapped_chunk, row_idx, i + 1)

\* a duplicate check that also flags the first occurrence
DuplicateCheckFlagsFirst(acc, tr, row, field, current_idx) ==
    IF Has(row, field) /\ Get(row, field, <<>>) # <<>>
    THEN LET v == TrackerKey(field, Get(row, field, <<>>))
             dups == tr.duplicates[field]
             first == Get(dups, v, <<current_idx>>)[1]
         IN  IF Has(dups, v)
             THEN RowError(acc,
                           CodeValue(row) \o <<" ", DuplicateLabel[field], ": ">> \o v
                               \o <<" (also in row ", ToString(first + 1), ")">>,
                           <<DuplicateLabel[field]>>)
             ELSE acc
    ELSE acc

\* "Check for duplicate emails" ..., for one row and one field
DuplicateCheck(acc, tr, row, field, current_idx) ==
    IF Has(row, field) /\ Get(row, field, <<>>) # <<>>
    THEN LET v == TrackerKey(field, Get(row, field, <<>>))
             dups == tr.duplicates[field]
             first == Get(dups, v, <<current_idx>>)[1]
         IN  IF Has(dups, v) /\ first # current_idx
             THEN RowError(acc,
                           CodeValue(row) \o <<" ", DuplicateLabel[field], ": ">> \o v
                               \o <<" (also in row ", ToString(first + 1), ")">>,
                           <<DuplicateLabel[field]>>)
             ELSE acc
    ELSE acc

DuplicateChecks(acc, tr, row, current_idx) ==
    DuplicateCheck(DuplicateCheck(DuplicateCheck(DuplicateCheck(acc, tr, row, "email", current_idx),
        tr, row, "username", current_idx), tr, row, "personalid", current_idx),
        tr, row, "idcardno", current_idx)

\* the if/elif chain on field_lower of the row loop
ValidateFieldInline(acc, row, field, value, selected_regulation) ==
    LET field_lower == NameLower(field)
        code_value == CodeValue(row)
        called == Invoked(acc, field_lower)
        quoted == <<": '">> \o Strip(value) \o <<"'">>
        plain(prefix, error) ==
            IF error = None THEN called
            ELSE RowError(called, code_value \o <<" ", prefix, error>>, <<prefix, error>>)
        valued(prefix, error) ==
            IF error = None THEN called
            ELSE RowError(called, code_value \o <<" ", prefix, error>> \o quoted, <<prefix, error>>)
    IN  IF field_lower = "email"
        THEN IF enhanced_email_validation(value) = None THEN called
             ELSE RowError(called,
                           code_value \o <<" ", enhanced_email_validation(value)>> \o quoted,
                           <<enhanced_email_validation(value)>>)
        ELSE IF field_lower = "personalid"
        THEN valued("personalid: ", PersonalidError(value, row, selected_regulation))
        ELSE IF field_lower = "idcardno" THEN valued("idcardno: ", validate_idcardno(value))
        ELSE IF field_lower = "citizenship" THEN plain("citizenship: ", validate_citizenship(value))
        ELSE IF field_lower = "address" THEN plain("address: ", check_for_crlf(value))
        ELSE IF field_lower = "countrycode" THEN plain("countrycode: ", validate_country_code(value))
        ELSE IF field_lower \in {"phone", "cellphone"}
        THEN IF validate_phone_number(value) = None THEN called
             ELSE RowError(called,
                           code_value \o <<" ", field, ": ", validate_phone_number(value)>> \o quoted,
                           <<field, ": ", validate_phone_number(value)>>)
        ELSE IF field_lower \in ZipFields
        THEN IF ZipError(value, selected_regulation) = None THEN called
             ELSE RowError(called,
                           code_value \o <<" ", field, ": ", ZipError(value, selected_regulation)>>,
                           <<field, ": ", ZipError(value, selected_regulation)>>)
        ELSE called

\* a field step without the Peru branch for personalid
ValidateFieldNoPeruBranch(acc, row, field, required_columns_lower, selected_regulation) ==
    LET value == Get(row, field, <<>>)
        code_value == CodeValue(row)
        missing == <<field, " is required but missing">>
    IN  IF ~InList(NameLower(field), required_columns_lower) THEN acc
        ELSE IF Strip(value) = <<>> THEN RowError(acc, code_value \o <<" ">> \o missing, missing)
        ELSE ValidateFieldInline(acc, row, field, value, selected_regulation)

\* one iteration of "for field in row.keys()" of the row loop
ValidateField(acc, row, field, required_columns_lower, selected_regulation) ==
    LET value == Get(row, field, <<>>)
        code_value == CodeValue(row)
        spanish == <<field, " is required for Spanish residents">>
        missing == <<field, " is required but missing">>
    IN  IF ~InList(NameLower(field), required_columns_lower) THEN acc
        ELSE IF NameLower(field) = "personalid" /\ selected_regulation # None
                /\ RegulationName(selected_regulation) = "Peru"
        THEN IF Upper(Strip(Get(row, "citizenship", <<>>))) = <<"E", "S">>
                /\ Strip(value) = <<>>
             THEN RowError(acc, code_value \o <<" ">> \o spanish, spanish)
             ELSE IF Strip(value) = <<>> THEN acc
             ELSE ValidateFieldInline(acc, row, field, value, selected_regulation)
        ELSE IF Strip(value) = <<>> THEN RowError(acc, code_value \o <<" ">> \o missing, missing)
        ELSE ValidateFieldInline(acc, row, field, value, selected_regulation)

RECURSIVE ValidateFields(_, _, _, _, _)
ValidateFields(acc, row, i, required_columns_lower, selected_regulation) ==
    IF i > Len(row) THEN acc
    ELSE ValidateFields(
            ValidateField(acc, row, row[i][1], required_columns_lower, selected_regulation),
            row, i + 1, required_columns_lower, selected_regulation)

\* the body of the second loop over mapped_chunk
\* a row loop that also reports every required column that the row lacks
ValidateRowChecksAbsent(tr, row, current_idx, required_columns_lower, selected_regulation) ==
    LET dup == DuplicateChecks(NewRow, tr, row, current_idx)
        fields == ValidateFields(dup, row, 1, required_columns_lower, selected_regulation)
        absent == SelectSeq(required_columns_lower,
                            LAMBDA f : ~InList(f, NamesLower(Keys(row))))
        lacking == RowErrors(fields, CodeValue(row),
                             [i \in 1..Len(absent) |-> <<absent[i], " is required but missing">>], 1)
        crossed == RowErrors(lacking, CodeValue(row),
                             validate_address_fields(row)
                                 \o validate_language_country_consistency(row), 1)
        document == DocumentError(row, selected_regulation)
        done == IF document = None THEN crossed
                ELSE RowError(crossed, CodeValue(row) \o <<" ", document>>, <<document>>)
    IN  RowResult(done, row, current_idx)

ValidateRow(tr, row, current_idx, required_columns_lower, selected_regulation) ==
    LET dup == DuplicateChecks(NewRow, tr, row, current_idx)
        fields == ValidateFields(dup, row, 1, required_columns_lower, selected_regulation)
        crossed == RowErrors(fields, CodeValue(row),
                             validate_address_fields(row)
                                 \o validate_language_country_consistency(row), 1)
        document == DocumentError(row, selected_regulation)
        done == IF document = None THEN crossed
                ELSE RowError(crossed, CodeValue(row) \o <<" ", document>>, <<document>>)
    IN  RowResult(done, row, current_idx)

RECURSIVE ValidateChunk(_, _, _, _, _, _)
ValidateChunk(tr, mapped_chunk, row_idx, i, required_columns_lower, selected_regulation) ==
    IF i > Len(mapped_chunk) THEN <<>>
    ELSE <<ValidateRow(tr, mapped_chunk[i], row_idx + i - 1, required_columns_lower,
                       selected_regulation)>>
         \o ValidateChunk(tr, mapped_chunk, row_idx, i + 1, required_columns_lower,
                          selected_regulation)

map_column_name(original_name, column_mappings) ==
    LET hits == {i \in 1..Len(column_mappings) :
                    NameLower(original_name) = NameLower(column_mappings[i][1])}
    IN  IF hits = {} THEN original_name
        ELSE column_mappings[CHOOSE i \in hits : \A j \in hits : i <= j][2]

RECURSIVE MapRow(_, _, _)
MapRow(original_row, column_mappings, i) ==
    IF i = 0 THEN <<>>
    ELSE Put(MapRow(original_row, column_mappings, i - 1),
             map_column_name(original_row[i][1], column_mappings), original_row[i][2])

MapChunk(chunk, column_mappings) ==
    [i \in 1..Len(chunk) |-> MapRow(chunk[i], column_mappings, Len(chunk[i]))]

\* Counter: error_counter[key] += 1 for every key of a list
RECURSIVE CountAll(_, _, _)
CountAll(counter, keys, i) ==
    IF i > Len(keys) THEN counter
    ELSE CountAll(Put(counter, keys[i], Get(counter, keys[i], 0) + 1), keys, i + 1)

RECURSIVE CountResults(_, _, _)
CountResults(counter, results, i) ==
    IF i > Len(results) THEN counter
    ELSE CountResults(CountAll(counter, results[i].counted, 1), results, i + 1)

\* sorted(items, key=count, reverse=True): stable, largest count first
RECURSIVE SortByCount(_)
SortByCount(items) ==
    IF items = <<>> THEN <<>>
    ELSE LET rest == SortByCount(SubSeq(items, 1, Len(items) - 1))
             last == items[Len(items)]
             ahead == {i \in 1..Len(rest) : rest[i][2] >= last[2]}
             n == Cardinality(ahead)
         IN  SubSeq(rest, 1, n) \o <<last>> \o SubSeq(rest, n + 1, Len(rest))

\* a count that takes every result for a valid one
CountEveryResult(results) == Len(results)

CountValid(results) == Cardinality({i \in 1..Len(results) : results[i].valid})

----------------------------------------------------------------------------
(* Uploaded files and requests *)

\* rows of a file with the columns code, email, username, personalid,
\* idcardno, citizenship, address, city
FullRows == {
    << <<"code", <<"7">>>>, <<"email", <<"a", "@", "b", ".", "c", "o">>>>, <<"username", <<"b", "o", "b">>>>, <<"personalid", <<"1", "2", "3", "4", "5", "6", "7", "8", "Z">>>>, <<"idcardno", <<"A", "B", "1", "2", "3">>>>, <<"citizenship", <<"E", "S">>>>, <<"address", <<"x">>>>, <<"city", <<"y">>>> >>,
    << <<"code", <<"8">>>>, <<"email", <<" ", "A", "@", "B", ".", "C", "O">>>>, <<"username", <<"B", "o", "b", " ">>>>, <<"personalid", <<>>>>, <<"idcardno", <<"a", "b", "1", "2", "3">>>>, <<"citizenship", <<"e", "s", " ">>>>, <<"address", <<>>>>, <<"city", <<"y">>>> >>,
    << <<"code", <<>>>>, <<"email", <<" ", " ">>>>, <<"username", <<>>>>, <<"personalid", <<" ", " ">>>>, <<"idcardno", <<>>>>, <<"citizenship", <<"P", "E">>>>, <<"address", <<>>>>, <<"city", <<>>>> >> }

\* rows of a file with the columns Correo, personalid, idcardno
ShortRows == {
    << <<"Correo", <<"a", "@", "b", ".", "c", "o">>>>, <<"personalid", <<"A", "B", "C", "1", "2", "3">>>>, <<"idcardno", <<"A", "B", "1", "2", "3">>>> >>,
    << <<"Correo", <<" ", "A", "@", "b", ".", "c", "o", " ">>>>, <<"personalid", <<" ">>>>, <<"idcardno", <<"a", "b", "1", "2", "3">>>> >> }

RECURSIVE SeqsUpTo(_, _)
SeqsUpTo(S, n) ==
    IF n = 0 THEN {<<>>}
    ELSE SeqsUpTo(S, n - 1) \cup
         {Append(q, x) : q \in {r \in SeqsUpTo(S, n - 1) : Len(r) = n - 1}, x \in S}

Files == {[columns |-> Keys(rows[1]), rows |-> rows] :
            rows \in (SeqsUpTo(FullRows, MaxRows) \cup SeqsUpTo(ShortRows, MaxRows)) \ {<<>>}}

NoRequest == [has_regulation |-> FALSE, regulation |-> "",
              has_required |-> FALSE, required_columns |-> <<>>,
              has_mappings |-> FALSE, column_mappings |-> <<>>]

Requests == {
    NoRequest,
    [NoRequest EXCEPT !.has_regulation = TRUE, !.regulation = "PE"],
    [NoRequest EXCEPT !.has_required = TRUE,
                      !.required_columns = <<"Email", "personalid", "idcardno", "citizenship">>,
                      !.has_mappings = TRUE,
                      !.column_mappings = << <<"CORREO", "email">> >>] }

NoFile == [columns |-> <<>>, rows |-> <<>>]

NoReport == [validation_complete |-> FALSE]

NoPrevious == [req |-> NoRequest, report |-> NoReport]

NoLocals == [selected_regulation |-> None, required_columns |-> <<>>, column_mappings |-> <<>>,
             tracking |-> EmptyTracking, validation_results |-> <<>>, row_idx |-> 0]

NoPool == [chunk_size |-> 0, n_workers |-> 0, required_columns |-> <<>>,
           selected_regulation |-> None, chunks |-> <<>>, chunk_results |-> <<>>,
           done_order |-> <<>>]

NoCall == [fn |-> "none", result |-> None]

ProbeParked ==
    /\ pid_in = <<>>
    /\ cit_in = <<>>
    /\ pid_out = NoCall
    /\ probe_in = <<>>
    /\ probe_out = NoCall

Init ==
    /\ file \in Files
    /\ session = [required_columns |-> <<>>, column_mappings |-> <<>>, errors_file |-> <<>>]
    /\ pc = "idle"
    /\ req = NoRequest
    /\ loc = NoLocals
    /\ \E c \in 1..MaxChunkSize :
          par = [NoPool EXCEPT !.chunk_size = c, !.n_workers = MaxWorkers]
    /\ report = NoReport
    /\ prev = NoPrevious
    /\ runs = 0
    /\ ProbeParked

----------------------------------------------------------------------------
(* The /validate handler as a process *)

\* regulation_key in REGULATIONS, or no selected regulation
SelectedRegulation(q) ==
    IF q.has_regulation /\ Has(REGULATIONS, q.regulation) THEN q.regulation ELSE None

\* required_columns before the default list is substituted
RequestedColumns(q) ==
    IF SelectedRegulation(q) # None
    THEN Get(REGULATIONS, SelectedRegulation(q), NoRegulation).required_fields
    ELSE IF q.has_required THEN q.required_columns
    ELSE session.required_columns

RequiredColumns(q) ==
    IF RequestedColumns(q) = <<>> THEN DefaultRequiredColumns ELSE RequestedColumns(q)

ColumnMappings(q) == IF q.has_mappings THEN q.column_mappings ELSE session.column_mappings

\* the duplicate dictionaries survive from the previous request
StaleTracking == loc.tracking

\* email_indices = {} ... duplicate_idcardnos = {}
FreshTracking == EmptyTracking

ValidateStart(q) ==
    /\ pc = "idle"
    /\ runs < MaxRuns
    /\ file # NoFile
    /\ req' = q
    /\ prev' = [req |-> req, report |-> report]
    /\ session' = [required_columns |->
                       IF SelectedRegulation(q) # None \/ q.has_required
                       THEN RequestedColumns(q) ELSE session.required_columns,
                   column_mappings |-> ColumnMappings(q),
                   errors_file |-> session.errors_file]
    /\ loc' = [selected_regulation |-> SelectedRegulation(q),
               required_columns |-> RequiredColumns(q),
               column_mappings |-> ColumnMappings(q),
               tracking |-> FreshTracking,
               validation_results |-> <<>>,
               row_idx |-> 0]
    /\ pc' = "validate"
    /\ UNCHANGED <<file, par, report, runs>>
    /\ UNCHANGED probeVars

Min(a, b) == IF a <= b THEN a ELSE b

\* one iteration of "for chunk in read_csv_in_chunks(...)"
ValidateReadChunk ==
    /\ pc = "validate"
    /\ loc.row_idx < Len(file.rows)
    /\ LET chunk == SubSeq(file.rows, loc.row_idx + 1,
                           Min(loc.row_idx + ReadChunkRows, Len(file.rows)))
           mapped_chunk == MapChunk(chunk, loc.column_mappings)
           tr == TrackChunk(loc.tracking, mapped_chunk, loc.row_idx, 1)
           results == ValidateChunk(tr, mapped_chunk, loc.row_idx, 1,
                                    NamesLower(loc.required_columns), loc.selected_regulation)
       IN  loc' = [loc EXCEPT !.tracking = tr,
                              !.validation_results = @ \o results,
                              !.row_idx = @ + Len(mapped_chunk)]
    /\ UNCHANGED <<file, session, pc, req, par, report, prev, runs>>
    /\ UNCHANGED probeVars

\* validation_results[:10]
PreviewRows == 10

Preview(results) == SubSeq(results, 1, Min(PreviewRows, Len(results)))

\* the response of /validate
\* the pieces of the error messages that hold a colon followed by a space
ColonSpaceTokens ==
    {": ", ": '", "personalid: ", "idcardno: ", "citizenship: ", "address: ", "countrycode: ",
     "Non-residents must provide at least one document: ID card, passport, driver's license, or personal ID"}

\* len(error.split(': ', 2)) >= 2
SplitsInTwo(error) ==
    \E i \in 1..Len(error) :
        \/ error[i] \in ColonSpaceTokens
        \/ i < Len(error) /\ error[i] = ":" /\ error[i + 1] = " "

\* what follows the first ': ' inside a piece of ColonSpaceTokens
ColonSpaceRest(token) ==
    IF token = ": '" THEN <<"'">>
    ELSE IF token = "Non-residents must provide at least one document: ID card, passport, driver's license, or personal ID"
    THEN <<"ID card, passport, driver's license, or personal ID">>
    ELSE <<>>

\* ': '.join(error_parts[1:]): the error after its first ': '
ErrorMessage(error) ==
    LET at == {i \in 1..Len(error) :
                  \/ error[i] \in ColonSpaceTokens
                  \/ i < Len(error) /\ error[i] = ":" /\ error[i + 1] = " "}
        i == CHOOSE x \in at : \A y \in at : x <= y
    IN  IF error[i] \in ColonSpaceTokens
        THEN ColonSpaceRest(error[i]) \o SubSeq(error, i + 1, Len(error))
        ELSE SubSeq(error, i + 2, Len(error))

\* the pieces of the error messages that end with a quote
EndsWithQuote(token) == token \in {"'", "Language '", "' not typically used in country '"}

\* "': '" in error_message and error_message.endswith("'")
HasQuotedValue(error_message) ==
    /\ error_message # <<>>
    /\ EndsWithQuote(error_message[Len(error_message)])
    /\ \E j \in 2..Len(error_message) :
          error_message[j] = ": '" /\ EndsWithQuote(error_message[j - 1])

\* error_message.rfind(": '"), as an index of the pieces
LastValueMark(error_message) ==
    LET at == {j \in 1..Len(error_message) : error_message[j] = ": '"}
    IN  CHOOSE x \in at : \A y \in at : y <= x

\* "Extract actual value if present": error_type and invalid_value
ValueParts(error_message) ==
    IF HasQuotedValue(error_message)
    THEN [error_type |-> SubSeq(error_message, 1, LastValueMark(error_message) - 1),
          invalid_value |-> SubSeq(error_message, LastValueMark(error_message) + 1,
                                   Len(error_message) - 1)]
    ELSE [error_type |-> error_message, invalid_value |-> <<>>]

\* the entries one result adds to detailed_errors; an entry also keeps the
\* error it was parsed from
RECURSIVE ResultEntries(_, _)
ResultEntries(result, i) ==
    IF i > Len(result.errors) THEN <<>>
    ELSE (IF SplitsInTwo(result.errors[i])
          THEN <<[row_number |-> result.row, code |-> result.code,
                  error_type |-> ValueParts(ErrorMessage(result.errors[i])).error_type,
                  error_message |-> ErrorMessage(result.errors[i]),
                  invalid_value |-> ValueParts(ErrorMessage(result.errors[i])).invalid_value,
                  error |-> result.errors[i]]>>
          ELSE <<>>)
         \o ResultEntries(result, i + 1)

\* "Prepare detailed errors for CSV export"
RECURSIVE DetailedErrors(_, _)
DetailedErrors(results, i) ==
    IF i > Len(results) THEN <<>>
    ELSE (IF ~results[i].valid THEN ResultEntries(results[i], 1) ELSE <<>>)
         \o DetailedErrors(results, i + 1)

ValidateFinish ==
    /\ pc = "validate"
    /\ loc.row_idx = Len(file.rows)
    /\ report' = [validation_complete |-> TRUE,
                  total_rows |-> Len(loc.validation_results),
                  valid_rows |-> CountValid(loc.validation_results),
                  invalid_rows |-> Len(loc.validation_results) - CountValid(loc.validation_results),
                  error_counts |-> SortByCount(CountResults(<<>>, loc.validation_results, 1)),
                  duplicate_email_count |-> Len(loc.tracking.duplicates.email),
                  duplicate_username_count |-> Len(loc.tracking.duplicates.username),
                  duplicate_personalid_count |-> Len(loc.tracking.duplicates.personalid),
                  duplicate_idcardno_count |-> Len(loc.tracking.duplicates.idcardno),
                  results |-> Preview(loc.validation_results),
                  all_columns |-> file.columns,
                  required_columns |-> loc.required_columns,
                  column_mappings |-> loc.column_mappings,
                  has_errors_for_download |->
                      Len(DetailedErrors(loc.validation_results, 1)) > 0]
    /\ session' = [session EXCEPT !.errors_file = DetailedErrors(loc.validation_results, 1)]
    /\ runs' = runs + 1
    /\ pc' = "idle"
    /\ UNCHANGED <<file, req, loc, par, prev>>
    /\ UNCHANGED probeVars

----------------------------------------------------------------------------
(* data_processor.py: OptimizedDataProcessor, and the /validate-optimized handler *)

\* df.rename(columns=column_mappings) followed by row.to_dict(): exact match on the label
RECURSIVE RenameRow(_, _, _)
RenameRow(original_row, column_mappings, i) ==
    IF i = 0 THEN <<>>
    ELSE Put(RenameRow(original_row, column_mappings, i - 1),
             Get(column_mappings, original_row[i][1], original_row[i][1]), original_row[i][2])

RenameColumns(rows, column_mappings) ==
    [i \in 1..Len(rows) |-> RenameRow(rows[i], column_mappings, Len(rows[i]))]

\* chunks of chunk_size rows, each with the index of its first row
RECURSIVE split_dataframe(_, _, _)
split_dataframe(df, chunk_size, start_idx) ==
    IF start_idx >= Len(df) THEN <<>>
    ELSE <<[rows |-> SubSeq(df, start_idx + 1, Min(start_idx + chunk_size, Len(df))),
            start_idx |-> start_idx]>>
         \o split_dataframe(df, chunk_size, start_idx + chunk_size)

EmptyChunkTracking == [emails |-> <<>>, usernames |-> <<>>, personalids |-> <<>>, idcardnos |-> <<>>]

FieldKey == [email |-> "emails", username |-> "usernames", personalid |-> "personalids",
             idcardno |-> "idcardnos"]

TrackInChunkField(tracking, row, field, idx) ==
    IF Has(row, field) /\ Get(row, field, <<>>) # <<>>
    THEN LET value == Lower(Strip(Get(row, field, <<>>)))
             field_key == FieldKey[field]
         IN  IF value # <<>>
             THEN [tracking EXCEPT ![field_key] = Put(@, value, Append(Get(@, value, <<>>), idx))]
             ELSE tracking
    ELSE tracking

track_duplicates_in_chunk(row, idx, tracking) ==
    TrackInChunkField(TrackInChunkField(TrackInChunkField(TrackInChunkField(tracking,
        row, "email", idx), row, "username", idx), row, "personalid", idx), row, "idcardno", idx)

RECURSIVE ChunkRows(_, _, _, _, _)
ChunkRows(out, chunk, i, required_columns, selected_regulation) ==
    IF i > Len(chunk.rows) THEN out
    ELSE LET global_idx == chunk.start_idx + (i - 1)
             result == validate_single_row(chunk.rows[i], global_idx, required_columns,
                                           selected_regulation)
         IN  ChunkRows([results |-> Append(out.results, result),
                        error_counter |-> IF result.valid THEN out.error_counter
                                          ELSE CountAll(out.error_counter, result.errors, 1),
                        duplicate_tracking |-> track_duplicates_in_chunk(chunk.rows[i], global_idx,
                                                                         out.duplicate_tracking),
                        start_idx |-> out.start_idx,
                        chunk_size |-> out.chunk_size],
                       chunk, i + 1, required_columns, selected_regulation)

\* a chunk worker that numbers the rows from the start of its chunk
ValidateChunkLocalIndex(chunk, required_columns, selected_regulation) ==
    ChunkRows([results |-> <<>>, error_counter |-> <<>>,
               duplicate_tracking |-> EmptyChunkTracking,
               start_idx |-> chunk.start_idx, chunk_size |-> Len(chunk.rows)],
              [chunk EXCEPT !.start_idx = 0], 1, required_columns, selected_regulation)

validate_chunk(chunk, required_columns, selected_regulation) ==
    ChunkRows([results |-> <<>>, error_counter |-> <<>>,
               duplicate_tracking |-> EmptyChunkTracking,
               start_idx |-> chunk.start_idx, chunk_size |-> Len(chunk.rows)],
              chunk, 1, required_columns, selected_regulation)

\* Counter.update(other)
RECURSIVE CounterUpdate(_, _, _)
CounterUpdate(counter, other, i) ==
    IF i > Len(other) THEN counter
    ELSE CounterUpdate(Put(counter, other[i][1], Get(counter, other[i][1], 0) + other[i][2]),
                       other, i + 1)

\* merge of one chunk's {value: indices} into the global one: extend or insert
RECURSIVE MergeTracking(_, _, _)
MergeTracking(global, field_tracking, i) ==
    IF i > Len(field_tracking) THEN global
    ELSE MergeTracking(Put(global, field_tracking[i][1],
                           Get(global, field_tracking[i][1], <<>>) \o field_tracking[i][2]),
                       field_tracking, i + 1)

CountDuplicated(field_tracking) ==
    Cardinality({i \in 1..Len(field_tracking) : Len(field_tracking[i][2]) > 1})

RECURSIVE CombineChunks(_, _, _)
CombineChunks(acc, chunk_results, i) ==
    IF i > Len(chunk_results) THEN acc
    ELSE CombineChunks(
            [all_results |-> acc.all_results \o chunk_results[i].results,
             combined_error_counter |->
                 CounterUpdate(acc.combined_error_counter, chunk_results[i].error_counter, 1),
             global_duplicate_tracking |->
                 [k \in DOMAIN acc.global_duplicate_tracking |->
                     MergeTracking(acc.global_duplicate_tracking[k],
                                   chunk_results[i].duplicate_tracking[k], 1)]],
            chunk_results, i + 1)

\* a merge that reports the tally of the first chunk only
CombineFirstChunkTally(chunk_results) ==
    LET c == CombineChunks([all_results |-> <<>>, combined_error_counter |-> <<>>,
                            global_duplicate_tracking |-> EmptyChunkTracking],
                           chunk_results, 1)
    IN  [validation_complete |-> TRUE,
         total_rows |-> Len(c.all_results),
         valid_rows |-> CountValid(c.all_results),
         invalid_rows |-> Len(c.all_results) - CountValid(c.all_results),
         error_counts |-> SortByCount(IF chunk_results = <<>> THEN <<>>
                                      ELSE chunk_results[1].error_counter),
         duplicate_counts |-> [k \in DOMAIN c.global_duplicate_tracking |->
                                  CountDuplicated(c.global_duplicate_tracking[k])],
         results |-> c.all_results,
         global_duplicates |-> c.global_duplicate_tracking]

combine_validation_results(chunk_results) ==
    LET c == CombineChunks([all_results |-> <<>>, combined_error_counter |-> <<>>,
                            global_duplicate_tracking |-> EmptyChunkTracking],
                           chunk_results, 1)
    IN  [validation_complete |-> TRUE,
         total_rows |-> Len(c.all_results),
         valid_rows |-> CountValid(c.all_results),
         invalid_rows |-> Len(c.all_results) - CountValid(c.all_results),
         error_counts |-> SortByCount(c.combined_error_counter),
         duplicate_counts |-> [k \in DOMAIN c.global_duplicate_tracking |->
                                  CountDuplicated(c.global_duplicate_tracking[k])],
         results |-> c.all_results,
         global_duplicates |-> c.global_duplicate_tracking]

NoResult == [results |-> <<>>, error_counter |-> <<>>, duplicate_tracking |-> EmptyChunkTracking,
             start_idx |-> 0 - 1, chunk_size |-> 0]

\* validate_optimized up to pool.map: parameters, read, rename, split
OptimizedStart(q) ==
    /\ pc = "idle"
    /\ runs < MaxRuns
    /\ file # NoFile
    /\ req' = q
    /\ prev' = [req |-> req, report |-> report]
    /\ LET df == RenameColumns(file.rows, ColumnMappings(q))
           chunks == split_dataframe(df, par.chunk_size, 0)
       IN  par' = [par EXCEPT !.required_columns = RequiredColumns(q),
                              !.selected_regulation = SelectedRegulation(q),
                              !.chunks = chunks,
                              !.chunk_results = [i \in 1..Len(chunks) |-> NoResult],
                              !.done_order = <<>>]
    /\ pc' = "pool"
    /\ UNCHANGED <<file, session, loc, report, runs>>
    /\ UNCHANGED probeVars

Pending(i) == ~InList(i, par.done_order)

\* a pool worker finishes chunk i; at most n_workers chunks are in progress,
\* taken from the task queue in order
WorkerComplete(i) ==
    /\ pc = "pool"
    /\ Pending(i)
    /\ Cardinality({j \in 1..(i - 1) : Pending(j)}) < par.n_workers
    /\ par' = [par EXCEPT !.chunk_results[i] =
                              validate_chunk(par.chunks[i], par.required_columns,
                                             par.selected_regulation),
                          !.done_order = Append(@, i)]
    /\ UNCHANGED <<file, session, pc, req, loc, report, prev, runs>>
    /\ UNCHANGED probeVars

\* the chunk results in the order the workers delivered them
CompletionOrderResults == [k \in 1..Len(par.done_order) |-> par.chunk_results[par.done_order[k]]]

\* pool.map returns the chunk results in the order of the chunks
MapOrderResults == par.chunk_results

\* validation_results['results'][:100]
LimitedRows == 100

\* pool.map has returned: combine and respond with limited_results
OptimizedFinish ==
    /\ pc = "pool"
    /\ Len(par.done_order) = Len(par.chunks)
    /\ LET validation_results == combine_validation_results(MapOrderResults)
           detailed_errors == DetailedErrors(validation_results.results, 1)
       IN  /\ report' = [validation_results EXCEPT
                             !.results = SubSeq(@, 1, Min(LimitedRows, Len(@)))]
                         @@ ("has_errors_for_download" :> (Len(detailed_errors) > 0))
           /\ session' = [session EXCEPT !.errors_file = detailed_errors]
    /\ par' = [par EXCEPT !.chunks = <<>>, !.chunk_results = <<>>]
    /\ runs' = runs + 1
    /\ pc' = "idle"
    /\ UNCHANGED <<file, req, loc, prev>>
    /\ UNCHANGED probeVars

Next ==
    \/ \E q \in Requests : ValidateStart(q)
    \/ ValidateReadChunk
    \/ ValidateFinish
    \/ \E q \in Requests : OptimizedStart(q)
    \/ \E i \in 1..Len(par.chunks) : WorkerComplete(i)
    \/ OptimizedFinish

Spec == Init /\ [][Next]_vars

----------------------------------------------------------------------------
(* Probe of the personalid validators: one validator call on one input *)

PidSamples == {
    <<>>,
    <<" ">>,
    <<"1", "2", "3", "4", "5", "6", "7", "8", "Z">>,
    <<"1", "2", "3", "4", "5", "6", "7", "8", "z">>,
    <<" ", "1", "2", "3", "4", "5", "6", "7", "8", "Z", " ">>,
    <<"X", "1", "2", "3", "4", "5", "6", "7", "L">>,
    <<"y", "1", "2", "3", "4", "5", "6", "7", "l">>,
    <<"A", "1", "2", "3", "4", "5", "6", "7", "L">>,
    <<"A", "B", "C", "1", "2", "3">>,
    <<"A", "B", "1", "2", "3">>,
    <<"1", "2", "3", "4">>,
    <<"A", "B", "-", "1", " ", "2">>,
    <<"A", "B", "\t", "1", "2">>,
    <<"A", "B", "!", "1", "2">>,
    <<"1", "2", "3", "4", "5", "6", "7", "8", "9">>,
    <<"1", "2", "3", "4", "5", "6", "7", "Z">>,
    <<"X", "1", "2", "3", "4", "5", "6", "L">>,
    Rep("7", 20),
    Rep("7", 21) }

CitSamples == { <<>>, <<" ">>, <<"E", "S">>, <<"e", "s">>, <<" ", "E", "s", " ">>, <<"P", "E">>, <<"E", " ", "S">> }

RunParked ==
    /\ file = NoFile
    /\ session = [required_columns |-> <<>>, column_mappings |-> <<>>, errors_file |-> <<>>]
    /\ pc = "probe"
    /\ req = NoRequest
    /\ loc = NoLocals
    /\ par = NoPool
    /\ report = NoReport
    /\ prev = NoPrevious
    /\ runs = 0

InitPid ==
    /\ pid_in \in PidSamples
    /\ cit_in \in CitSamples
    /\ pid_out = NoCall
    /\ probe_in = <<>>
    /\ probe_out = NoCall
    /\ RunParked

CallPeruPersonalid ==
    /\ pc = "probe"
    /\ pid_out' = [fn |-> "validate_peru_personalid",
                   result |-> validate_peru_personalid(pid_in, cit_in)]
    /\ UNCHANGED <<pid_in, cit_in, probe_in, probe_out>>
    /\ UNCHANGED runVars

CallDefaultPersonalid ==
    /\ pc = "probe"
    /\ pid_out' = [fn |-> "validate_personalid", result |-> validate_personalid(pid_in)]
    /\ UNCHANGED <<pid_in, cit_in, probe_in, probe_out>>
    /\ UNCHANGED runVars

NextPid == CallPeruPersonalid \/ CallDefaultPersonalid

SpecPid == InitPid /\ [][NextPid]_vars

----------------------------------------------------------------------------
(* Properties of the Peru personalid validator *)

IsSpanish(citizenship) == Upper(Strip(citizenship)) = <<"E", "S">>

\* the generic personalid shape: 5 to 20 characters after trimming, each one
\* a letter, a digit, a hyphen or white space
GenericShapeOk(v) ==
    LET t == Strip(v)
    IN  /\ Len(t) >= 5
        /\ Len(t) <= 20
        /\ \A i \in 1..Len(t) : t[i] \in Letters \cup Digits \cup {"-", " ", "\t", "\n", "\r"}

\* DNI (8 digits and a letter) or NIE (X, Y or Z, 7 digits and a letter),
\* letters in either case, read on the trimmed value
SpanishShapeOk(v) ==
    LET t == Strip(v)
    IN  /\ Len(t) = 9
        /\ t[9] \in Letters
        /\ \/ \A i \in 1..8 : t[i] \in Digits
           \/ /\ t[1] \in {"X", "Y", "Z", "x", "y", "z"}
              /\ \A i \in 2..8 : t[i] \in Digits

PeruCalled == pid_out.fn = "validate_peru_personalid"

\* C9 as stated: for every citizenship other than "ES", an empty or absent one
\* included, validate_peru_personalid gives no error on an empty personalid and
\* an error on a non-empty one exactly when it fails the generic check.
C9_AnyNonSpanishOptional ==
    (PeruCalled /\ ~IsSpanish(cit_in)) =>
        ((pid_out.result = None) <=> (pid_in = <<>> \/ GenericShapeOk(pid_in)))

\* C9 amended: the same for every non-empty citizenship other than "ES"; for
\* an empty or absent citizenship validate_peru_personalid returns
\* "Citizenship is required for PersonalID validation" whatever the personalid.
C9_NonSpanishOptional ==
    /\ (PeruCalled /\ cit_in # <<>> /\ ~IsSpanish(cit_in)) =>
          ((pid_out.result = None) <=> (pid_in = <<>> \/ GenericShapeOk(pid_in)))
    /\ (PeruCalled /\ cit_in = <<>>) =>
          pid_out.result = "Citizenship is required for PersonalID validation"

C9_Witness ==
    /\ PeruCalled
    /\ cit_in = <<"P", "E">>
    /\ pid_in = <<"1", "2", "3", "4">>
    /\ pid_out.result # None

\* C10: for citizenship "ES" validate_peru_personalid returns the "PersonalID
\* is mandatory" error on an empty personalid, no error on a DNI or NIE in
\* either letter case, and the invalid-format error on every other value.
C10_SpanishDniOrNie ==
    (PeruCalled /\ IsSpanish(cit_in)) =>
        /\ pid_in = <<>> =>
              pid_out.result = "PersonalID is mandatory for Spanish residents (DNI or NIE required)"
        /\ (pid_in # <<>> /\ SpanishShapeOk(pid_in)) => pid_out.result = None
        /\ (pid_in # <<>> /\ ~SpanishShapeOk(pid_in)) =>
              pid_out.result = "Invalid Spanish ID format. Must be DNI (8 digits + letter) or NIE (X/Y/Z + 7 digits + letter)"

C10_Witness ==
    /\ PeruCalled
    /\ cit_in = <<"e", "s">>
    /\ pid_in = <<"y", "1", "2", "3", "4", "5", "6", "7", "l">>
    /\ pid_out.result = None

----------------------------------------------------------------------------
(* Properties of the validation runs *)

Elements(list) == {list[i] : i \in 1..Len(list)}

IsOptimized(rep) == "global_duplicates" \in DOMAIN rep

Completed == pc = "idle" /\ report.validation_complete

CompletedValidate == Completed /\ ~IsOptimized(report)

CompletedOptimized == Completed /\ IsOptimized(report)

\* the rows, required columns and regulation the last completed run worked on
LastRows ==
    IF IsOptimized(report) THEN RenameColumns(file.rows, ColumnMappings(req))
    ELSE MapChunk(file.rows, loc.column_mappings)

LastRequired == IF IsOptimized(report) THEN par.required_columns ELSE loc.required_columns

LastRegulation ==
    IF IsOptimized(report) THEN par.selected_regulation ELSE loc.selected_regulation

\* every row result that exists in the state
AllResults ==
    Elements(loc.validation_results)
    \cup UNION {Elements(par.chunk_results[i].results) : i \in 1..Len(par.chunk_results)}
    \cup (IF report.validation_complete THEN Elements(report.results) ELSE {})
    \cup (IF prev.report.validation_complete THEN Elements(prev.report.results) ELSE {})

\* C1: every row result of either row validator has valid = TRUE exactly when
\* its list of errors is empty.
C1_ValidIffNoErrors == \A r \in AllResults : r.valid <=> (r.errors = <<>>)

C1_Witness ==
    /\ Completed
    /\ \E r \in Elements(report.results) : r.valid
    /\ \E r \in Elements(report.results) : ~r.valid /\ Len(r.errors) >= 2

\* the normalisation of the duplicate index: trimmed, and lower-cased for
\* email and username only
IndexKey(field, raw) ==
    IF field \in {"email", "username"} THEN Lower(Strip(raw)) ELSE Strip(raw)

\* 0-based indices of the rows whose field has the normalised value v
Occurrences(rows, field, v) ==
    {i \in 0..(Len(rows) - 1) :
        Has(rows[i + 1], field) /\ IndexKey(field, Get(rows[i + 1], field, <<>>)) = v}

IndexKeys(rows, field) ==
    {IndexKey(field, Get(rows[i], field, <<>>)) : i \in {j \in 1..Len(rows) : Has(rows[j], field)}}
    \ {<<>>}

Least(S) == CHOOSE i \in S : \A j \in S : i <= j

IsDuplicateError(e, field) == \E k \in 1..Len(e) : e[k] = DuplicateLabel[field]

DuplicateMessage(code, field, v, first) ==
    code \o <<" ", DuplicateLabel[field], ": ">> \o v \o <<" (also in row ", ToString(first + 1), ")">>

DuplicateErrors(result, field) ==
    {k \in 1..Len(result.errors) : IsDuplicateError(result.errors[k], field)}

\* C2: after a /validate run, for every tracked field and every non-empty
\* normalised value with k > 1 occurrences, each occurrence after the first
\* carries exactly one "Duplicate <field>" error, which names the row of the
\* first occurrence, and the first occurrence carries none; a row whose value
\* occurs once carries none either.
C2_SequentialDuplicates ==
    CompletedValidate =>
        \A f \in Elements(TrackedFields) : \A v \in IndexKeys(LastRows, f) :
            LET occ == Occurrences(LastRows, f, v)
                first == Least(occ)
            IN  \A i \in occ :
                    LET r == report.results[i + 1]
                    IN  IF i = first THEN DuplicateErrors(r, f) = {}
                        ELSE /\ Cardinality(DuplicateErrors(r, f)) = 1
                             /\ \A k \in DuplicateErrors(r, f) :
                                    r.errors[k] = DuplicateMessage(r.code, f, v, first)

\* a value with three occurrences, the first and the last in different read chunks
C2_Witness ==
    /\ CompletedValidate
    /\ Len(report.results) > ReadChunkRows
    /\ \E v \in IndexKeys(LastRows, "email") :
          /\ Cardinality(Occurrences(LastRows, "email", v)) = 3
          /\ IsDuplicateError(report.results[Len(report.results)].errors[1], "email")

ChunkOf(i) == i \div par.chunk_size

IsBackReference(e) == \E k \in 1..Len(e) : e[k] = " (also in row "

\* C3: after a /validate-optimized run, when two rows of different chunks
\* share a normalised email and the earlier one is its first occurrence, the
\* later row's result has a duplicate error naming the earlier row and the
\* earlier row's result has none.
C3_CrossChunkDuplicateReported ==
    CompletedOptimized =>
        \A v \in IndexKeys(LastRows, "email") :
            LET occ == Occurrences(LastRows, "email", v)
                first == Least(occ)
            IN  \A j \in occ :
                    (ChunkOf(j) # ChunkOf(first)) =>
                        /\ \E k \in 1..Len(report.results[j + 1].errors) :
                              LET e == report.results[j + 1].errors[k]
                              IN  /\ IsBackReference(e)
                                  /\ e[Len(e) - 1] = ToString(first + 1)
                        /\ \A k \in 1..Len(report.results[first + 1].errors) :
                              ~IsBackReference(report.results[first + 1].errors[k])

DuplicatedKeys(rows, field) ==
    {v \in IndexKeys(rows, field) : Cardinality(Occurrences(rows, field, v)) > 1}

\* C4: after the merge step of a /validate-optimized run the duplicate count of
\* every tracked field is the number of distinct normalised values that occur
\* in more than one row of the dataset.
C4_MergedDuplicateCounts ==
    CompletedOptimized =>
        \A f \in Elements(TrackedFields) :
            report.duplicate_counts[FieldKey[f]] = Cardinality(DuplicatedKeys(LastRows, f))

\* C5: after a /validate-optimized run the merged results are in row order,
\* whatever the order in which the workers completed: entry i is the result of
\* input row i and has row number i.
C5_ResultsInRowOrder ==
    CompletedOptimized =>
        /\ Len(report.results) = Len(file.rows)
        /\ \A i \in 1..Len(report.results) :
              /\ report.results[i].row = i
              /\ report.results[i].code = CodeValue(LastRows[i])

\* the last chunk completed first
C5_Witness ==
    /\ CompletedOptimized
    /\ Len(par.done_order) >= 2
    /\ par.done_order[1] = Len(par.done_order)
    /\ report.results[1].code # report.results[Len(report.results)].code

\* C6: two consecutive runs of the same endpoint with the same request on the
\* same file return the same report: the same row results in the same order
\* with the same errors, and the same counts.
C6_Idempotent ==
    (Completed /\ runs >= 2 /\ prev.req = req /\ prev.report.validation_complete
        /\ IsOptimized(prev.report) = IsOptimized(report))
    => prev.report = report

C6_Witness ==
    /\ Completed
    /\ runs >= 2
    /\ prev.req = req
    /\ req.has_regulation
    /\ ~IsOptimized(prev.report) /\ ~IsOptimized(report)
    /\ \E r \in Elements(report.results) : \E k \in 1..Len(r.errors) : IsBackReference(r.errors[k])

\* the fields of a row that are required, other than personalid under Peru
PlainRequired(row) ==
    {k \in 1..Len(row) :
        /\ InList(NameLower(row[k][1]), NamesLower(LastRequired))
        /\ ~(NameLower(row[k][1]) = "personalid" /\ RegulationName(LastRegulation) = "Peru")}

MissingMessage(code, field) == code \o <<" ", field, " is required but missing">>

\* C7: for every required field of a row whose value is empty after trimming
\* (other than personalid under Peru) the result has exactly one error
\* "<field> is required but missing", the field's validator was not invoked,
\* and the validator of every other required, non-empty field was invoked.
C7_RequiredButMissing ==
    Completed =>
        \A i \in 1..Len(LastRows) :
            LET row == LastRows[i]
                r == report.results[i]
            IN  \A k \in PlainRequired(row) :
                    Strip(row[k][2]) = <<>> =>
                        /\ Cardinality({n \in 1..Len(r.errors) :
                                r.errors[n] = MissingMessage(r.code, row[k][1])}) = 1
                        /\ ~InList(NameLower(row[k][1]), r.calls)
                        /\ \A g \in PlainRequired(row) :
                              Strip(row[g][2]) # <<>> => InList(NameLower(row[g][1]), r.calls)

\* a row with an empty required email and another required field that fails its validator
C7_Witness ==
    /\ CompletedOptimized
    /\ \E i \in 1..Len(LastRows) :
          /\ Has(LastRows[i], "email")
          /\ Get(LastRows[i], "email", <<>>) = <<" ", " ">>
          /\ InList("email", NamesLower(LastRequired))
          /\ InList("citizenship", report.results[i].calls)
          /\ Len(report.results[i].errors) >= 2

IsPersonalidError(e) == \E k \in 1..Len(e) : e[k] \in {"personalid", "personalid: "}

SpanishMessage(code, field) == code \o <<" ", field, " is required for Spanish residents">>

\* C8: under the Peru regulation, for a row whose required personalid is empty
\* after trimming: with citizenship "ES" (trimmed, any case) the result has the
\* error "personalid is required for Spanish residents" and no other
\* personalid error; with any other citizenship it has no personalid error;
\* in both cases the personalid validator was not invoked.
C8_PeruEmptyPersonalid ==
    (Completed /\ RegulationName(LastRegulation) = "Peru") =>
        \A i \in 1..Len(LastRows) :
            LET row == LastRows[i]
                r == report.results[i]
                about == {n \in 1..Len(r.errors) : IsPersonalidError(r.errors[n])}
            IN  (/\ Has(row, "personalid")
                 /\ InList("personalid", NamesLower(LastRequired))
                 /\ Strip(Get(row, "personalid", <<>>)) = <<>>)
                =>
                /\ ~InList("personalid", r.calls)
                /\ IF IsSpanish(Get(row, "citizenship", <<>>))
                   THEN /\ Cardinality(about) = 1
                        /\ \A n \in about : r.errors[n] = SpanishMessage(r.code, "personalid")
                   ELSE about = {}

\* a Spanish row with the error and a non-Spanish row without, in one /validate run
C8_Witness ==
    /\ CompletedValidate
    /\ RegulationName(LastRegulation) = "Peru"
    /\ \E i, j \in 1..Len(LastRows) :
          /\ Get(LastRows[i], "personalid", <<"x">>) = <<>>
          /\ IsSpanish(Get(LastRows[i], "citizenship", <<>>))
          /\ \E n \in 1..Len(report.results[i].errors) :
                report.results[i].errors[n] = SpanishMessage(report.results[i].code, "personalid")
          /\ Get(LastRows[j], "personalid", <<>>) = <<" ", " ">>
          /\ ~IsSpanish(Get(LastRows[j], "citizenship", <<>>))

----------------------------------------------------------------------------
(* Probe of the two row validators on a single row *)

\* a column that is absent, or present with one of the values
Opt(k, values) == {<<>>} \cup {<< <<k, v>> >> : v \in values}

\* rows that vary citizenship and the four documents
DocRows ==
    {<< <<"code", <<"1">>>> >> \o c \o i \o p \o d \o n :
        c \in Opt("citizenship", {<<>>, <<" ">>, <<"E", "S">>, <<" ", "e", "s">>, <<"P", "E">>}),
        i \in Opt("idcardno", {<<>>, <<"A", "B", "1", "2", "3">>}),
        p \in Opt("passportid", {<<" ">>, <<"P", "1">>}),
        d \in Opt("DRIVERLICENSENO", {<<>>, <<"D", "1">>}),
        n \in Opt("personalid", {<<" ">>, <<"A", "B", "C", "1", "2", "3">>})}

\* rows that vary the value of five fields, each between a sound and an unsound one
MultiRows ==
    {<< <<"code", <<"1">>>>, <<"email", e>>, <<"citizenship", c>>, <<"countrycode", k>>,
        <<"address", <<"x">>>>, <<"city", t>>, <<"idcardno", i>> >> :
        e \in {<<"a", "@", "b", ".", "c", "o">>, <<"b", "a", "d">>},
        c \in {<<"P", "E">>, <<"P">>},
        k \in {<<"P", "E">>, <<"p", "1">>},
        t \in {<<"y">>, <<>>},
        i \in {<<"A", "B", "1", "2", "3">>, <<>>}}

\* rows that hold a language code and a country code only
LangRows ==
    {<< <<"code", <<"1">>>>, <<"languagecode", l>>, <<"countrycode", k>> >> :
        l \in {<<"e", "s">>, <<"E", "N", " ">>},
        k \in {<<"P", "E">>, <<"U", "S">>}}

RowSamples == DocRows \cup MultiRows \cup LangRows

\* the required columns of a request that names the regulation, or names none
RegulationRequired(sel) ==
    IF sel = None THEN DefaultRequiredColumns
    ELSE Get(REGULATIONS, sel, NoRegulation).required_fields

InitRow ==
    /\ probe_in \in [row : RowSamples, regulation : {"PE", None}]
    /\ probe_out = NoCall
    /\ pid_in = <<>>
    /\ cit_in = <<>>
    /\ pid_out = NoCall
    /\ RunParked

\* validate_single_row on the row, as the chunk worker calls it
CallSingleRow ==
    /\ pc = "probe"
    /\ probe_out' = [fn |-> "validate_single_row",
                     result |-> validate_single_row(probe_in.row, 0,
                                    RegulationRequired(probe_in.regulation),
                                    probe_in.regulation)]
    /\ UNCHANGED <<pid_in, cit_in, pid_out, probe_in>>
    /\ UNCHANGED runVars

\* the two loops of /validate over a chunk that holds the row only
CallValidateRow ==
    /\ pc = "probe"
    /\ probe_out' = [fn |-> "validate",
                     result |-> ValidateRow(TrackRow(EmptyTracking, probe_in.row, 0),
                                    probe_in.row, 0,
                                    NamesLower(RegulationRequired(probe_in.regulation)),
                                    probe_in.regulation)]
    /\ UNCHANGED <<pid_in, cit_in, pid_out, probe_in>>
    /\ UNCHANGED runVars

NextRow == CallSingleRow \/ CallValidateRow

SpecRow == InitRow /\ [][NextRow]_vars

RowCalled == probe_out.fn \in {"validate_single_row", "validate"}

DocumentMessage ==
    "Non-residents must provide at least one document: ID card, passport, driver's license, or personal ID"

HasDocumentError(result) ==
    \E n \in 1..Len(result.errors) :
        result.errors[n] = result.code \o <<" ", DocumentMessage>>

NoDocument(row) ==
    \A k \in {"idcardno", "passportid", "DRIVERLICENSENO", "personalid"} :
        Strip(Get(row, k, <<>>)) = <<>>

\* C11 as stated: under Peru a row gets the document-presence error exactly
\* when its citizenship is not "ES" (an empty or absent citizenship included)
\* and its four documents are all empty.
C11_AnyNonSpanishNeedsDocument ==
    (RowCalled /\ probe_in.regulation = "PE") =>
        (HasDocumentError(probe_out.result) <=>
            (~IsSpanish(Get(probe_in.row, "citizenship", <<>>)) /\ NoDocument(probe_in.row)))

\* C11, amended: under Peru a row gets the document-presence error exactly
\* when its citizenship is a non-empty string other than "ES" (trimmed, any
\* case) and idcardno, passportid, DRIVERLICENSENO and personalid are all
\* empty after trimming; a row with empty or absent citizenship gets none.
C11_GivenNonSpanishNeedsDocument ==
    (RowCalled /\ probe_in.regulation = "PE") =>
        (HasDocumentError(probe_out.result) <=>
            (/\ Get(probe_in.row, "citizenship", <<>>) # <<>>
             /\ ~IsSpanish(Get(probe_in.row, "citizenship", <<>>))
             /\ NoDocument(probe_in.row)))

C11_Witness ==
    /\ probe_out.fn = "validate_single_row"
    /\ probe_in.regulation = "PE"
    /\ Get(probe_in.row, "citizenship", <<>>) = <<"P", "E">>
    /\ Has(probe_in.row, "passportid")
    /\ NoDocument(probe_in.row)
    /\ HasDocumentError(probe_out.result)

----------------------------------------------------------------------------
(* Probe of the validator registry and of the dispatch that consults it *)

\* regulation names: none, the three of the registry, the names that
\* REGULATIONS gives to "CO" and "IMS", and one that nothing knows
RegNames == {None, "Peru", "Colombia", "IMS", "Columbia", "Basic", "Chile"}

ValueSamples ==
    { <<>>, <<" ">>, <<"1", "2">>, <<"1", "2", "3", "4">>, <<"1", "2", "3", "4", "5">>,
      <<"1", "5", "0", "1", "0", "1">>, <<"L", "I", "M", "A", "0", "1">>,
      <<"l", "i", "m", "a", "0", "1">>, <<"A", "B", "!", "1", "2">>, <<"A", "B", "-", "1", " ", "2">>,
      <<"1", "2", "3", "4", "5", "6", "7", "8", "Z">>, Rep("7", 11) }

InitReg ==
    /\ probe_in \in [name : RegNames, value : ValueSamples,
                     row : {<< <<"citizenship", <<"E", "S">>>> >>, << <<"citizenship", <<"P", "E">>>> >>}]
    /\ probe_out = NoCall
    /\ pid_in = <<>>
    /\ cit_in = <<>>
    /\ pid_out = NoCall
    /\ RunParked

CallGetValidator ==
    /\ pc = "probe"
    /\ probe_out' = [fn |-> "get_validator",
                     result |-> [t \in {"personalid", "zip", "documents"} |->
                                    get_validator(probe_in.name, t)]]
    /\ UNCHANGED <<pid_in, cit_in, pid_out, probe_in>>
    /\ UNCHANGED runVars

\* the personalid branch of the row validators under a regulation of that name
CallFieldPersonalid ==
    /\ pc = "probe"
    /\ probe_out' = [fn |-> "personalid",
                     result |-> PersonalidByName(probe_in.value, probe_in.row, probe_in.name)]
    /\ UNCHANGED <<pid_in, cit_in, pid_out, probe_in>>
    /\ UNCHANGED runVars

\* the zip branch of the row validators under a regulation of that name
CallFieldZip ==
    /\ pc = "probe"
    /\ probe_out' = [fn |-> "zip", result |-> ZipByName(probe_in.value, probe_in.name)]
    /\ UNCHANGED <<pid_in, cit_in, pid_out, probe_in>>
    /\ UNCHANGED runVars

NextReg == CallGetValidator \/ CallFieldPersonalid \/ CallFieldZip

SpecReg == InitReg /\ [][NextReg]_vars

\* the overrides the registry is built with
Overrides ==
    { <<"Peru", "personalid">>, <<"Peru", "documents">>, <<"Peru", "zip">>,
      <<"Colombia", "personalid">>, <<"IMS", "personalid">> }

\* C12: get_validator returns no validator exactly when the regulation is
\* absent, unknown or has no override of that type; for every regulation name
\* other than Peru the personalid verdict of a value is the default
\* validator's verdict, and for every name without a zip override the zip
\* verdict is the default zip validator's verdict.
C12_FallbackToDefault ==
    /\ (probe_out.fn = "get_validator") =>
          \A t \in {"personalid", "zip", "documents"} :
              (probe_out.result[t] = None) <=> (<<probe_in.name, t>> \notin Overrides)
    /\ (probe_out.fn = "personalid" /\ probe_in.name # "Peru") =>
          probe_out.result = validate_personalid(probe_in.value)
    /\ (probe_out.fn = "zip" /\ <<probe_in.name, "zip">> \notin Overrides) =>
          probe_out.result = validate_zip_code(probe_in.value)

\* Colombia rejects a four-character personalid as the default validator does
C12_Witness ==
    /\ probe_out.fn = "personalid"
    /\ probe_in.name = "Colombia"
    /\ probe_in.value = <<"1", "2", "3", "4">>
    /\ probe_out.result # None
    /\ probe_out.result = validate_personalid(probe_in.value)

\* C13: after a run whose column mapping has an entry K -> email, every row
\* of a file with a header that equals K up to letter case was handed on with
\* its value under the key email, and its email was validated when required
\* and not empty, in /validate and in /validate-optimized.
C13_HeaderMappedInAnyCase ==
    Completed =>
        \A e \in 1..Len(ColumnMappings(req)) : \A i \in 1..Len(file.rows) :
            \A k \in 1..Len(file.rows[i]) :
                (/\ ColumnMappings(req)[e][2] = "email"
                 /\ NameLower(file.rows[i][k][1]) = NameLower(ColumnMappings(req)[e][1]))
                =>
                /\ Has(LastRows[i], "email")
                /\ Get(LastRows[i], "email", <<>>) = file.rows[i][k][2]
                /\ (InList("email", NamesLower(LastRequired)) /\ Strip(file.rows[i][k][2]) # <<>>)
                       => InList("email", report.results[i].calls)

\* the duplicate groups (sets of 0-based row indices) the detector of the last
\* completed run holds for a tracked field
Groups(field) ==
    IF IsOptimized(report)
    THEN {Elements(g[2]) : g \in Elements(report.global_duplicates[FieldKey[field]])}
    ELSE {Elements(g[2]) : g \in Elements(loc.tracking.duplicates[field])}

Together(field, i, j) == \E g \in Groups(field) : i \in g /\ j \in g

\* C14: in both detectors, two rows whose email or username differ only in
\* letter case or surrounding white space are in the same duplicate group,
\* and two rows whose personalid or idcardno differ in letter case are not.
C14_CaseAsymmetry ==
    Completed =>
        \A i, j \in 0..(Len(LastRows) - 1) : i < j =>
            /\ \A f \in {"email", "username"} :
                  LET a == Get(LastRows[i + 1], f, <<>>)
                      b == Get(LastRows[j + 1], f, <<>>)
                  IN  (Strip(a) # <<>> /\ Lower(Strip(a)) = Lower(Strip(b)))
                          => Together(f, i, j)
            /\ \A f \in {"personalid", "idcardno"} :
                  LET a == Get(LastRows[i + 1], f, <<>>)
                      b == Get(LastRows[j + 1], f, <<>>)
                  IN  (Strip(a) # Strip(b) /\ Lower(Strip(a)) = Lower(Strip(b)))
                          => ~Together(f, i, j)

----------------------------------------------------------------------------
(* Runs on long files: more rows than the response of /validate lists *)

GoodRow == << <<"countrycode", <<"P", "E">>>> >>

BadRow == << <<"countrycode", <<>>>> >>

\* files of one-column rows: all good, all bad, or bad rows at the odd positions
LongFiles ==
    {[columns |-> <<"countrycode">>, rows |-> rows] :
        rows \in UNION {{[i \in 1..n |-> GoodRow], [i \in 1..n |-> BadRow],
                         [i \in 1..n |-> IF i % 2 = 1 THEN BadRow ELSE GoodRow]} :
                        n \in 1..MaxLong}}

\* a processor whose chunk_size splits the longest file in two
InitLong ==
    /\ file \in LongFiles
    /\ session = [required_columns |-> <<>>, column_mappings |-> <<>>, errors_file |-> <<>>]
    /\ pc = "idle"
    /\ req = NoRequest
    /\ loc = NoLocals
    /\ par = [NoPool EXCEPT !.chunk_size = (MaxLong + 1) \div 2, !.n_workers = MaxWorkers]
    /\ report = NoReport
    /\ prev = NoPrevious
    /\ runs = 0
    /\ ProbeParked

SpecLong == InitLong /\ [][Next]_vars

\* the limit on the results a response lists
ResultLimit == IF IsOptimized(report) THEN LimitedRows ELSE PreviewRows

----------------------------------------------------------------------------
(* Accumulation of errors in a row *)

\* the checks that the row of MultiRows violates under the regulation
ViolatedChecks(row, sel) ==
    LET required(f) == InList(f, RegulationRequired(sel))
        city == Get(row, "city", <<>>)
        idcardno == Get(row, "idcardno", <<>>)
    IN  (IF required("email") /\ Get(row, "email", <<>>) = <<"b", "a", "d">> THEN {"email"} ELSE {})
        \cup (IF required("citizenship") /\ Get(row, "citizenship", <<>>) = <<"P">> THEN {"citizenship"} ELSE {})
        \cup (IF required("countrycode") /\ Get(row, "countrycode", <<>>) = <<"p", "1">> THEN {"countrycode"} ELSE {})
        \cup (IF required("city") /\ city = <<>> THEN {"city"} ELSE {})
        \cup (IF required("idcardno") /\ idcardno = <<>> THEN {"idcardno"} ELSE {})
        \cup (IF city = <<>> THEN {"address without city"} ELSE {})
        \cup (IF sel = "PE" /\ idcardno = <<>> THEN {"documents"} ELSE {})

\* C16: a row with independent violations in n different checks carries n
\* errors, one for each violated check, under either row validator; no
\* violation suppresses the check of another field, the cross-field check or
\* the document check
C16_ErrorsAccumulate ==
    (RowCalled /\ probe_in.row \in MultiRows) =>
        LET n == Cardinality(ViolatedChecks(probe_in.row, probe_in.regulation))
        IN  /\ Len(probe_out.result.errors) = n
            /\ probe_out.result.valid = (n = 0)

C16_Witness ==
    /\ RowCalled
    /\ probe_out.fn = "validate_single_row"
    /\ probe_in.row \in MultiRows
    /\ Cardinality(ViolatedChecks(probe_in.row, probe_in.regulation)) = 7
    /\ Len(probe_out.result.errors) = 7

----------------------------------------------------------------------------
(* Language code against country code *)

IsLanguageError(error) == \E i \in 1..Len(error) : error[i] = "Language '"

\* C19: a row whose only finding is a mismatch of language code and country
\* code is still valid
C19_LanguageMismatchOnlyWarns ==
    (/\ RowCalled
     /\ probe_out.result.errors # <<>>
     /\ \A i \in 1..Len(probe_out.result.errors) : IsLanguageError(probe_out.result.errors[i]))
        => probe_out.result.valid

----------------------------------------------------------------------------
(* The detailed errors of a run *)

RECURSIVE SumErrors(_, _)
SumErrors(results, i) ==
    IF i > Len(results) THEN 0
    ELSE (IF results[i].valid THEN 0 ELSE Len(results[i].errors)) + SumErrors(results, i + 1)

\* C17: after a completed run the detailed errors hold one entry per error
\* of every invalid row, and has_errors_for_download is true whenever a row
\* is invalid
C17_OneEntryPerError ==
    Completed =>
        /\ Len(session.errors_file) = SumErrors(report.results, 1)
        /\ (report.invalid_rows > 0) => report.has_errors_for_download

----------------------------------------------------------------------------
(* The required columns of a request without a regulation *)

\* C18: a completed run whose request names no regulation and no required
\* columns, in a session where no request named required columns, worked
\* with the default required columns and with no regulation, also after a
\* request that selected a regulation
C18_DefaultRequiredWithoutRegulation ==
    (/\ Completed
     /\ ~req.has_regulation
     /\ ~req.has_required
     /\ ~prev.req.has_required)
        => /\ LastRequired = DefaultRequiredColumns
           /\ LastRegulation = None

----------------------------------------------------------------------------
(* app.py: the failures of a run as a whole *)

\* return jsonify({'error': ...}), status
ErrorResponse(message, status) == [error |-> message, status |-> status]

\* /validate: the stored file does not exist
ValidateNoFile(q) ==
    /\ pc = "idle"
    /\ runs < MaxRuns
    /\ file = NoFile
    /\ req' = q
    /\ prev' = [req |-> req, report |-> report]
    /\ report' = ErrorResponse("File no longer exists. Please upload again.", 400)
    /\ runs' = runs + 1
    /\ UNCHANGED <<file, session, pc, loc, par>>
    /\ UNCHANGED probeVars

\* an exception handler that answers with what was validated so far
ValidateRaisesWithPartialReport ==
    /\ pc = "validate"
    /\ report' = [error |-> "Error during validation", status |-> 500,
                  total_rows |-> Len(loc.validation_results),
                  results |-> Preview(loc.validation_results)]
    /\ runs' = runs + 1
    /\ pc' = "idle"
    /\ UNCHANGED <<file, session, req, loc, par, prev>>
    /\ UNCHANGED probeVars

\* /validate: reading or validating a chunk raises; "except Exception as e"
ValidateRaises ==
    /\ pc = "validate"
    /\ report' = ErrorResponse("Error during validation", 500)
    /\ runs' = runs + 1
    /\ pc' = "idle"
    /\ UNCHANGED <<file, session, req, loc, par, prev>>
    /\ UNCHANGED probeVars

\* /validate-optimized: the stored file does not exist
OptimizedNoFile(q) ==
    /\ pc = "idle"
    /\ runs < MaxRuns
    /\ file = NoFile
    /\ req' = q
    /\ prev' = [req |-> req, report |-> report]
    /\ report' = ErrorResponse("File no longer exists. Please upload again.", 400)
    /\ runs' = runs + 1
    /\ UNCHANGED <<file, session, pc, loc, par>>
    /\ UNCHANGED probeVars

\* /validate-optimized: read_csv_optimized raises
OptimizedReadFails(q) ==
    /\ pc = "idle"
    /\ runs < MaxRuns
    /\ file # NoFile
    /\ req' = q
    /\ prev' = [req |-> req, report |-> report]
    /\ report' = ErrorResponse("Error reading file", 500)
    /\ runs' = runs + 1
    /\ UNCHANGED <<file, session, pc, loc, par>>
    /\ UNCHANGED probeVars

\* /validate-optimized: validate_dataframe_parallel raises
OptimizedRaises ==
    /\ pc = "pool"
    /\ report' = ErrorResponse("Error during parallel validation", 500)
    /\ par' = [par EXCEPT !.chunks = <<>>, !.chunk_results = <<>>]
    /\ runs' = runs + 1
    /\ pc' = "idle"
    /\ UNCHANGED <<file, session, req, loc, prev>>
    /\ UNCHANGED probeVars

InitFail ==
    /\ file \in LongFiles \cup {NoFile}
    /\ session = [required_columns |-> <<>>, column_mappings |-> <<>>, errors_file |-> <<>>]
    /\ pc = "idle"
    /\ req = NoRequest
    /\ loc = NoLocals
    /\ par = [NoPool EXCEPT !.chunk_size = (MaxLong + 1) \div 2, !.n_workers = MaxWorkers]
    /\ report = NoReport
    /\ prev = NoPrevious
    /\ runs = 0
    /\ ProbeParked

NextFail ==
    \/ \E q \in Requests : ValidateStart(q)
    \/ \E q \in Requests : ValidateNoFile(q)
    \/ ValidateReadChunk
    \/ ValidateRaises
    \/ ValidateFinish
    \/ \E q \in Requests : OptimizedStart(q)
    \/ \E q \in Requests : OptimizedNoFile(q)
    \/ \E q \in Requests : OptimizedReadFails(q)
    \/ \E i \in 1..Len(par.chunks) : WorkerComplete(i)
    \/ OptimizedRaises
    \/ OptimizedFinish

SpecFail == InitFail /\ [][NextFail]_vars

Failed == pc = "idle" /\ "error" \in DOMAIN report

\* C20: a run that fails as a whole answers with a single top-level error and
\* nothing else, no row results and no counts; every other answer is a
\* complete report over all rows of the file
C20_FailureIsSingleError ==
    (pc = "idle" /\ runs > 0) =>
        IF "error" \in DOMAIN report
        THEN DOMAIN report = {"error", "status"}
        ELSE report.validation_complete /\ report.total_rows = Len(file.rows)

\* /validate raised after it had validated some rows of the file
C20_Witness ==
    /\ Failed
    /\ loc.row_idx > 0
    /\ loc.row_idx < Len(file.rows)
    /\ loc.validation_results # <<>>
    /\ report.status = 500

----------------------------------------------------------------------------
(* validators_common.py: is_invalid_birthdate *)

DigitValue(c) == CHOOSE n \in 0..9 : ToString(n) = c

\* int() of a sequence of digits
RECURSIVE ToNat(_)
ToNat(s) == IF s = <<>> THEN 0
            ELSE ToNat(SubSeq(s, 1, Len(s) - 1)) * 10 + DigitValue(s[Len(s)])

IsLeap(y) == (y % 4 = 0 /\ y % 100 # 0) \/ y % 400 = 0

DaysInMonth(y, m) ==
    IF m = 2 THEN (IF IsLeap(y) THEN 29 ELSE 28)
    ELSE IF m \in {4, 6, 9, 11} THEN 30 ELSE 31

\* the three parts of "a/b/c", or <<>> when the text has not exactly two slashes
SlashParts(s) ==
    LET at == {i \in 1..Len(s) : s[i] = "/"}
    IN  IF Cardinality(at) # 2 THEN <<>>
        ELSE LET i == CHOOSE x \in at : \A y \in at : x <= y
                 j == CHOOSE x \in at : \A y \in at : y <= x
             IN  <<SubSeq(s, 1, i - 1), SubSeq(s, i + 1, j - 1), SubSeq(s, j + 1, Len(s))>>

\* datetime.strptime(s, date_format) for the formats '%d/%m/%Y' and '%m/%d/%Y':
\* the date <<year, month, day>>, or <<>> for ValueError
strptime(s, date_format) ==
    LET parts == SlashParts(s)
        short(p) == Len(p) \in {1, 2} /\ AllIn(p, 1, Len(p), Digits)
    IN  IF parts = <<>> THEN <<>>
        ELSE IF ~(short(parts[1]) /\ short(parts[2])
                  /\ Len(parts[3]) = 4 /\ AllIn(parts[3], 1, 4, Digits))
        THEN <<>>
        ELSE LET year == ToNat(parts[3])
                 day == IF date_format = "%d/%m/%Y" THEN ToNat(parts[1]) ELSE ToNat(parts[2])
                 month == IF date_format = "%d/%m/%Y" THEN ToNat(parts[2]) ELSE ToNat(parts[1])
             IN  IF year >= 1 /\ month \in 1..12 /\ day >= 1 /\ day <= DaysInMonth(year, month)
                 THEN <<year, month, day>>
                 ELSE <<>>

\* a < b for dates; the time of day of datetime.today() is not before midnight,
\* so it changes none of the comparisons with a parsed date
DateBefore(a, b) ==
    \/ a[1] < b[1]
    \/ a[1] = b[1] /\ a[2] < b[2]
    \/ a[1] = b[1] /\ a[2] = b[2] /\ a[3] < b[3]

\* date + relativedelta(months=n): the day is clipped to the end of the month
AddMonths(date, n) ==
    LET total == date[1] * 12 + (date[2] - 1) + n
        year == total \div 12
        month == (total % 12) + 1
    IN  <<year, month, Min(date[3], DaysInMonth(year, month))>>

\* the whole months from dt2 to dt1, dt2 <= dt1: relativedelta steps back from
\* the difference of the month fields while dt1 is before dt2 plus the months
RECURSIVE SettleMonths(_, _, _)
SettleMonths(dt1, dt2, months) ==
    IF DateBefore(dt1, AddMonths(dt2, months)) THEN SettleMonths(dt1, dt2, months - 1)
    ELSE months

\* an age taken from the year fields alone
YearDifference(dt1, dt2) == dt1[1] - dt2[1]

\* relativedelta(dt1, dt2).years for dt2 <= dt1
relativedelta_years(dt1, dt2) ==
    SettleMonths(dt1, dt2, (dt1[1] - dt2[1]) * 12 + (dt1[2] - dt2[2])) \div 12

age_limit == 18

\* is_invalid_birthdate(birthdate_str) evaluated on the date today
is_invalid_birthdate(birthdate_str, today) ==
    LET s == Strip(birthdate_str)
        day_first == strptime(s, "%d/%m/%Y")
        month_first == strptime(s, "%m/%d/%Y")
        judge(birthdate) ==
            IF DateBefore(today, birthdate) THEN <<"Birthdate is in the future">>
            ELSE IF relativedelta_years(today, birthdate) < age_limit
            THEN <<"Account holder is underage (age: ",
                   ToString(relativedelta_years(today, birthdate)), ")">>
            ELSE None
    IN  IF birthdate_str = <<>> THEN <<"Birthdate is empty">>
        ELSE IF day_first # <<>> THEN judge(day_first)
        ELSE IF month_first # <<>> THEN judge(month_first)
        ELSE <<"Invalid birthdate format">>

\* probe of the birthdate validator
TwoDigits(n) == <<ToString(n \div 10), ToString(n % 10)>>

FourDigits(n) == <<ToString(n \div 1000), ToString((n \div 100) % 10),
                   ToString((n \div 10) % 10), ToString(n % 10)>>

FormatDayFirst(date) ==
    TwoDigits(date[3]) \o <<"/">> \o TwoDigits(date[2]) \o <<"/">> \o FourDigits(date[1])

FormatMonthFirst(date) ==
    TwoDigits(date[2]) \o <<"/">> \o TwoDigits(date[3]) \o <<"/">> \o FourDigits(date[1])

BirthDates ==
    { <<2006, 6, 15>>, <<2006, 6, 14>>, <<2006, 6, 16>>, <<2006, 7, 1>>, <<2006, 5, 31>>,
      <<2004, 2, 29>>, <<2006, 2, 28>>, <<2006, 3, 1>>, <<2005, 12, 31>>, <<2006, 1, 1>>,
      <<1950, 7, 31>>, <<2024, 6, 15>>, <<2030, 1, 1>> }

Todays ==
    { <<2024, 6, 14>>, <<2024, 6, 15>>, <<2024, 6, 16>>, <<2024, 2, 28>>, <<2024, 2, 29>>,
      <<2024, 3, 1>>, <<2022, 2, 28>>, <<2022, 3, 1>>, <<2023, 12, 31>>, <<2024, 1, 1>>,
      <<2025, 6, 15>> }

\* the text of a birthdate with the date it denotes; a month-first text only
\* where the day cannot be read as a month
BirthSamples ==
    {[birthdate |-> FormatDayFirst(d), born |-> d] : d \in BirthDates}
    \cup {[birthdate |-> <<" ">> \o FormatMonthFirst(d), born |-> d] :
              d \in {b \in BirthDates : b[3] > 12}}
    \cup {[birthdate |-> t, born |-> <<>>] :
              t \in {<<>>, <<"3", "1", "/", "0", "2", "/", "2", "0", "0", "6">>,
                     <<"2", "0", "0", "6", "-", "0", "6", "-", "1", "5">>}}

InitDate ==
    /\ probe_in \in {[birthdate |-> b.birthdate, born |-> b.born, today |-> t] :
                        b \in BirthSamples, t \in Todays}
    /\ probe_out = NoCall
    /\ pid_in = <<>>
    /\ cit_in = <<>>
    /\ pid_out = NoCall
    /\ RunParked

CallBirthdate ==
    /\ pc = "probe"
    /\ probe_out' = [fn |-> "is_invalid_birthdate",
                     result |-> is_invalid_birthdate(probe_in.birthdate, probe_in.today)]
    /\ UNCHANGED <<pid_in, cit_in, pid_out, probe_in>>
    /\ UNCHANGED runVars

NextDate == CallBirthdate

SpecDate == InitDate /\ [][NextDate]_vars

BirthdateCalled == probe_out.fn = "is_invalid_birthdate"

\* the n-th anniversary of a date; the one of 29 February is 28 February in a
\* year that is not a leap year
Anniversary(date, n) == <<date[1] + n, date[2], Min(date[3], DaysInMonth(date[1] + n, date[2]))>>

\* the number of anniversaries of born that are not after today
CompletedYears(born, today) ==
    Cardinality({n \in 1..(IF today[1] > born[1] THEN today[1] - born[1] ELSE 0) :
                    ~DateBefore(today, Anniversary(born, n))})

\* C21: the birthdate validator rejects a birthdate exactly when it is after
\* the evaluation date or the number of completed calendar years up to the
\* evaluation date is below 18, and it names that number; born 15/06/2006 is
\* 17 on 2024-06-14 and accepted from 2024-06-15 on
C21_BirthdateAge ==
    (BirthdateCalled /\ probe_in.born # <<>>) =>
        LET age == CompletedYears(probe_in.born, probe_in.today)
        IN  probe_out.result =
                IF DateBefore(probe_in.today, probe_in.born)
                THEN <<"Birthdate is in the future">>
                ELSE IF age < 18
                THEN <<"Account holder is underage (age: ", ToString(age), ")">>
                ELSE None

C21_Witness ==
    /\ BirthdateCalled
    /\ probe_in.born = <<2006, 6, 15>>
    /\ probe_in.today = <<2024, 6, 14>>
    /\ probe_out.result = <<"Account holder is underage (age: ", "17", ")">>

\* the same person on the eighteenth birthday
C21_Accepted ==
    (BirthdateCalled /\ probe_in.born = <<2006, 6, 15>>
     /\ ~DateBefore(probe_in.today, <<2024, 6, 15>>)) => probe_out.result = None

----------------------------------------------------------------------------
(* The phone validator of the row validators *)

PhoneSamples ==
    {prefix \o body : prefix \in {<<>>, <<"+">>, <<" ", "+">>, <<"+", "+">>},
                      body \in {<<>>, <<" ">>, <<"1">>, Rep("7", 8), Rep("7", 9), Rep("7", 21),
                                Rep("7", 22), <<"1", "2", "3", " ", "4", "5", "6", " ", "7", "8", "9">>,
                                <<"1", "(", "2", "3", ")", "4", "5", "-", "6", "7", "8", "9">>,
                                <<"-", "1", "2", "3", "4", "5", "6", "7", "8", "9">>,
                                Rep("7", 9) \o <<"a">>, Rep("7", 9) \o <<" ">>}}

InitPhone ==
    /\ probe_in \in {[phone |-> p] : p \in PhoneSamples}
    /\ probe_out = NoCall
    /\ pid_in = <<>>
    /\ cit_in = <<>>
    /\ pid_out = NoCall
    /\ RunParked

CallPhone ==
    /\ pc = "probe"
    /\ probe_out' = [fn |-> "validate_phone_number",
                     result |-> validate_phone_number(probe_in.phone)]
    /\ UNCHANGED <<pid_in, cit_in, pid_out, probe_in>>
    /\ UNCHANGED runVars

\* _validate_field on a cellphone column
CallFieldPhone ==
    /\ pc = "probe"
    /\ probe_out' = [fn |-> "_validate_field",
                     result |-> validate_field("cellphone", probe_in.phone,
                                               << <<"cellphone", probe_in.phone>> >>, None)]
    /\ UNCHANGED <<pid_in, cit_in, pid_out, probe_in>>
    /\ UNCHANGED runVars

NextPhone == CallPhone \/ CallFieldPhone

SpecPhone == InitPhone /\ [][NextPhone]_vars

PhoneCalled == probe_out.fn \in {"validate_phone_number", "_validate_field"}

PhoneAccepted ==
    IF probe_out.fn = "_validate_field" THEN probe_out.result = <<>>
    ELSE probe_out.result = None

\* C22 as stated: the phone validator of the row validator accepts an empty
\* value and rejects a value exactly when it holds whitespace or a character
\* other than a digit and '+'
C22_DigitsAndPlusOnly ==
    PhoneCalled =>
        (PhoneAccepted <=>
            \A i \in 1..Len(probe_in.phone) : probe_in.phone[i] \in Digits \cup {"+"})

\* the value without the one leading '+' that the pattern allows
PhoneBody(p) == IF p # <<>> /\ p[1] = "+" THEN SubSeq(p, 2, Len(p)) ELSE p

\* C22 amended: the phone validator of the row validator rejects an empty
\* value, and accepts a value exactly when the trimmed value is an optional
\* '+', a digit, and 8 to 20 more characters that are digits, whitespace,
\* '-', '(' or ')'
C22_PhonePattern ==
    PhoneCalled =>
        LET body == PhoneBody(Strip(probe_in.phone))
        IN  PhoneAccepted <=>
                /\ Len(body) \in 9..21
                /\ body[1] \in Digits
                /\ \A i \in 2..Len(body) :
                      body[i] \in Digits \cup Whitespace \cup {"-", "(", ")"}

C22_Witness ==
    /\ probe_out.fn = "_validate_field"
    /\ probe_in.phone = <<"+", "1", "2", "3", " ", "4", "5", "6", " ", "7", "8", "9">>
    /\ probe_out.result = <<>>

----------------------------------------------------------------------------
(* The chunks of the parallel path *)

RECURSIVE FlattenChunks(_, _)
FlattenChunks(chunks, i) ==
    IF i > Len(chunks) THEN <<>> ELSE chunks[i].rows \o FlattenChunks(chunks, i + 1)

\* the rows that /validate-optimized hands to the processor
PoolRows == RenameColumns(file.rows, ColumnMappings(req))

\* C23: the chunks of a run are contiguous and hold every row once in the
\* original order, each chunk carries the 0-based global index of its first
\* row, every chunk but the last holds exactly chunk_size rows, and every row
\* result of a chunk carries the global position of its row
C23_ChunksPartitionRows ==
    (pc = "pool") =>
        /\ FlattenChunks(par.chunks, 1) = PoolRows
        /\ \A i \in 1..Len(par.chunks) :
              /\ par.chunks[i].start_idx = (i - 1) * par.chunk_size
              /\ Len(par.chunks[i].rows) >= 1
              /\ Len(par.chunks[i].rows) <= par.chunk_size
              /\ i < Len(par.chunks) => Len(par.chunks[i].rows) = par.chunk_size
              /\ \A k \in 1..Len(par.chunks[i].rows) :
                    par.chunks[i].rows[k] = PoolRows[par.chunks[i].start_idx + k]
              /\ ~Pending(i) =>
                    /\ Len(par.chunk_results[i].results) = Len(par.chunks[i].rows)
                    /\ \A k \in 1..Len(par.chunks[i].rows) :
                          /\ par.chunk_results[i].results[k].row = par.chunks[i].start_idx + k
                          /\ par.chunk_results[i].results[k].code
                                 = CodeValue(PoolRows[par.chunks[i].start_idx + k])

\* the second chunk of a file of three rows, cut in chunks of two, is done
C23_Witness ==
    /\ pc = "pool"
    /\ Len(file.rows) = 3
    /\ par.chunk_size = 2
    /\ Len(par.chunks) = 2
    /\ ~Pending(2)
    /\ par.chunk_results[2].results[1].row = 3

----------------------------------------------------------------------------
(* The error tally of a report *)

TallyKeys(counter) == {counter[i][1] : i \in 1..Len(counter)}

RECURSIVE SumOverChunks(_, _, _)
SumOverChunks(chunk_results, key, i) ==
    IF i > Len(chunk_results) THEN 0
    ELSE Get(chunk_results[i].error_counter, key, 0) + SumOverChunks(chunk_results, key, i + 1)

NonIncreasing(counter) ==
    \A i \in 1..Len(counter) : \A j \in 1..Len(counter) :
        i < j => counter[i][2] >= counter[j][2]

\* the step that answers a request with a report
Reports == pc # "idle" /\ pc' = "idle" /\ report'.validation_complete

\* C24: in the report of the parallel path the count of every tally key is
\* the sum of the key's counts over the chunk tallies, no other key is
\* reported, and the tally of a report is ordered by non-increasing count
C24_MergedTally ==
    [][Reports =>
          /\ NonIncreasing(report'.error_counts)
          /\ pc = "pool" =>
                /\ TallyKeys(report'.error_counts)
                       = UNION {TallyKeys(par.chunk_results[i].error_counter) :
                                   i \in 1..Len(par.chunk_results)}
                /\ \A i \in 1..Len(report'.error_counts) :
                      report'.error_counts[i][2]
                          = SumOverChunks(par.chunk_results, report'.error_counts[i][1], 1)]_vars

\* a merged tally with a key counted in two chunks, listed ahead of a key
\* counted once
C24_Witness ==
    /\ CompletedOptimized
    /\ par.chunk_size = 1
    /\ Len(report.error_counts) >= 2
    /\ report.error_counts[1][2] >= 2
    /\ report.error_counts[Len(report.error_counts)][2] = 1

----------------------------------------------------------------------------
(* Empty values and the duplicate detectors *)

\* the chunk tracker holds no empty value
ChunkTrackerSkipsEmpty ==
    /\ \A i \in 1..Len(par.chunk_results) : \A f \in Elements(TrackedFields) :
          ~Has(par.chunk_results[i].duplicate_tracking[FieldKey[f]], <<>>)
    /\ CompletedOptimized =>
          \A f \in Elements(TrackedFields) : ~Has(report.global_duplicates[FieldKey[f]], <<>>)

\* the sequential tracker holds no empty value, and no row with an empty
\* value carries a Duplicate error
SequentialTrackerSkipsEmpty ==
    /\ \A f \in Elements(TrackedFields) :
          /\ ~Has(loc.tracking.indices[f], <<>>)
          /\ ~Has(loc.tracking.duplicates[f], <<>>)
    /\ \A k \in 1..Len(loc.validation_results) : \A f \in Elements(TrackedFields) :
          LET r == loc.validation_results[k]
              row == MapChunk(file.rows, loc.column_mappings)[r.row]
          IN  DuplicateErrors(r, f) # {} => IndexKey(f, Get(row, f, <<>>)) # <<>>

\* C25: a row whose tracked value is empty after normalisation is skipped by
\* the duplicate detectors: the value is never recorded in an index, the row
\* never receives a Duplicate error and never makes another row receive one,
\* in the sequential tracker and in the chunk tracker
C25_EmptyValueSkipped == SequentialTrackerSkipsEmpty /\ ChunkTrackerSkipsEmpty

----------------------------------------------------------------------------
(* The invalid value of a detailed error *)

\* the error ends with the suffix : '<value>' of enhance_error_with_value
EndsWithValue(error) ==
    /\ error # <<>>
    /\ error[Len(error)] = "'"
    /\ \E j \in 1..Len(error) : error[j] = ": '"

\* C26: for every error that ends with the suffix : '<value>', the entry of
\* the detailed errors has invalid_value equal to the value between the
\* quotes and error_type equal to the error message without the suffix
C26_InvalidValueRoundTrip ==
    Completed =>
        \A k \in 1..Len(session.errors_file) :
            LET entry == session.errors_file[k]
                mark == LastValueMark(entry.error)
            IN  EndsWithValue(entry.error) =>
                    /\ entry.invalid_value = SubSeq(entry.error, mark + 1, Len(entry.error) - 1)
                    /\ entry.error_type \o SubSeq(entry.error, mark, Len(entry.error))
                           = entry.error_message

----------------------------------------------------------------------------
(* Chunked validation against validation of the whole *)

\* the report of the processor on the dataset as a single chunk
WholeReport ==
    combine_validation_results(
        <<validate_chunk([rows |-> LastRows, start_idx |-> 0],
                         par.required_columns, par.selected_regulation)>>)

\* C27: the report of validate_dataframe_parallel (row results, counts, error
\* tally, merged duplicate index and duplicate counts) is the one of the
\* validation of the dataset as one chunk, for every chunk size and every
\* order in which the workers complete
C27_ChunkingEquivalence ==
    CompletedOptimized =>
        \A key \in DOMAIN WholeReport : report[key] = WholeReport[key]

\* a dataset cut in three chunks, with a value tracked in two of them and
\* with errors in its tally
C27_Witness ==
    /\ CompletedOptimized
    /\ par.chunk_size = 1
    /\ Len(file.rows) = 3
    /\ report.error_counts # <<>>
    /\ \E f \in Elements(TrackedFields) : report.duplicate_counts[FieldKey[f]] > 0

----------------------------------------------------------------------------
(* Required fields that the row lacks *)

\* the required columns that are keys of the row
PresentRequired(row, required_columns) ==
    SelectSeq(required_columns, LAMBDA f : InList(NameLower(f), NamesLower(Keys(row))))

\* the result of the called row validator on the row of the probe, with the
\* given required columns
ProbeResultWith(required_columns) ==
    IF probe_out.fn = "validate_single_row"
    THEN validate_single_row(probe_in.row, 0, required_columns, probe_in.regulation)
    ELSE ValidateRow(TrackRow(EmptyTracking, probe_in.row, 0), probe_in.row, 0,
                     NamesLower(required_columns), probe_in.regulation)

\* C28: a required field without a column in the row contributes nothing to
\* the result of a row validator: the result is the one for the required
\* fields that are keys of the row, and no error names an absent field
C28_AbsentRequiredIgnored ==
    RowCalled =>
        LET required == RegulationRequired(probe_in.regulation)
            result == probe_out.result
        IN  /\ result = ProbeResultWith(PresentRequired(probe_in.row, required))
            /\ \A k \in 1..Len(result.errors) : \A i \in 1..Len(required) :
                  InList(NameLower(required[i]), NamesLower(Keys(probe_in.row)))
                  \/ \A j \in 1..Len(result.errors[k]) : result.errors[k][j] # required[i]

\* a valid row under the Peru regulation that lacks required columns
C28_Witness ==
    /\ RowCalled
    /\ probe_in.regulation = "PE"
    /\ probe_out.result.valid
    /\ ~Has(probe_in.row, "email")
    /\ InList("email", RegulationRequired("PE"))

----------------------------------------------------------------------------
(* app.py: upload_file and download_errors *)

\* the files of one data row
SmallFiles == {[columns |-> Keys(rows[1]), rows |-> rows] :
                  rows \in (SeqsUpTo(FullRows, 1) \cup SeqsUpTo(ShortRows, 1)) \ {<<>>}}

\* /upload of a file, with no required columns and no mappings in the form:
\* the session gets the new current file and empty column mappings
UploadFile ==
    /\ pc = "idle"
    /\ \E f \in SmallFiles : file' = f
    /\ session' = [session EXCEPT !.column_mappings = <<>>]
    /\ UNCHANGED <<pc, req, loc, par, report, prev, runs>>
    /\ UNCHANGED probeVars

\* writer.writerow(...) for every detailed error
CsvRows(detailed_errors) ==
    [i \in 1..Len(detailed_errors) |->
        <<detailed_errors[i].row_number, detailed_errors[i].code,
          detailed_errors[i].error_type, detailed_errors[i].invalid_value,
          detailed_errors[i].error_message>>]

\* a download that leaves the errors file and its reference in place
DownloadKeepsErrors ==
    /\ pc = "idle"
    /\ IF session.errors_file = <<>>
       THEN probe_out' = [fn |-> "download_errors",
                          result |-> ErrorResponse("No validation errors available for download", 400)]
       ELSE probe_out' = [fn |-> "download_errors",
                          result |-> [csv |-> CsvRows(session.errors_file)]]
    /\ UNCHANGED session
    /\ UNCHANGED <<pid_in, cit_in, pid_out, probe_in>>
    /\ UNCHANGED <<file, pc, req, loc, par, report, prev, runs>>

\* GET /download-errors; probe_out holds the response
DownloadErrors ==
    /\ pc = "idle"
    /\ IF session.errors_file = <<>>
       THEN /\ probe_out' = [fn |-> "download_errors",
                             result |-> ErrorResponse("No validation errors available for download", 400)]
            /\ UNCHANGED session
       ELSE /\ probe_out' = [fn |-> "download_errors",
                             result |-> [csv |-> CsvRows(session.errors_file)]]
            /\ session' = [session EXCEPT !.errors_file = <<>>]
    /\ UNCHANGED <<pid_in, cit_in, pid_out, probe_in>>
    /\ UNCHANGED <<file, pc, req, loc, par, report, prev, runs>>

InitDownload ==
    /\ file \in SmallFiles
    /\ session = [required_columns |-> <<>>, column_mappings |-> <<>>, errors_file |-> <<>>]
    /\ pc = "idle"
    /\ req = NoRequest
    /\ loc = NoLocals
    /\ par = [NoPool EXCEPT !.chunk_size = 1, !.n_workers = MaxWorkers]
    /\ report = NoReport
    /\ prev = NoPrevious
    /\ runs = 0
    /\ ProbeParked

NextDownload ==
    \/ UploadFile
    \/ \E q \in Requests : ValidateStart(q)
    \/ ValidateReadChunk
    \/ ValidateFinish
    \/ \E q \in Requests : OptimizedStart(q)
    \/ \E i \in 1..Len(par.chunks) : WorkerComplete(i)
    \/ OptimizedFinish
    \/ DownloadErrors

SpecDownload == InitDownload /\ [][NextDownload]_vars

\* the stored errors are none, or those of the most recent completed run
StoredIsLatest ==
    \/ session.errors_file = <<>>
    \/ report.validation_complete
       /\ session.errors_file = DetailedErrors(report.results, 1)

\* a step of download_errors that is not a stuttering step
DownloadStep ==
    /\ pc = "idle"
    /\ pc' = "idle"
    /\ probe_out' # probe_out \/ session'.errors_file # session.errors_file

----------------------------------------------------------------------------
(* validator_registry.py: register_validator on a registry object *)

\* get_validator of a registry whose dictionary is validators
get_validator_of(validators, regulation_name, validator_type) ==
    Get(Get(validators, regulation_name, <<>>), validator_type, None)

\* has_conditional_validation of a registry whose dictionary is validators
has_conditional_validation_of(validators, regulation_name, field_name) ==
    Get(Get(Get(validators, regulation_name, <<>>), "conditional_fields", <<>>),
        field_name, NoConditional)

\* a registration that starts the regulation's dictionary afresh
RegisterReplacesRegulation(validators, regulation_name, validator_type, validator_func) ==
    Put(validators, regulation_name, << <<validator_type, validator_func>> >>)

\* the dictionary after register_validator
register_validator(validators, regulation_name, validator_type, validator_func) ==
    LET known == IF Has(validators, regulation_name)
                 THEN validators
                 ELSE Put(validators, regulation_name, <<>>)
    IN  Put(known, regulation_name,
            Put(Get(known, regulation_name, <<>>), validator_type, validator_func))

RegisteredNames == {"Peru", "Chile"}

RegisteredTypes == {"personalid", "zip", "conditional_fields"}

\* what is registered: a validator function under a validator type, a
\* dictionary of conditional fields under 'conditional_fields'
RegisteredValues(validator_type) ==
    IF validator_type = "conditional_fields"
    THEN { <<>>, << <<"zip", [conditional |-> TRUE, depends_on |-> "countrycode"]>> >> }
    ELSE { "validate_ims_personalid", "validate_custom" }

\* probe_in holds the dictionary of the registry object
InitRegistry ==
    /\ probe_in = regulation_validators
    /\ probe_out = NoCall
    /\ pid_in = <<>>
    /\ cit_in = <<>>
    /\ pid_out = NoCall
    /\ RunParked

\* probe_out holds the arguments of the call
CallRegister ==
    /\ pc = "probe"
    /\ \E r \in RegisteredNames, t \in RegisteredTypes :
         \E f \in RegisteredValues(t) :
            /\ probe_in' = register_validator(probe_in, r, t, f)
            /\ probe_out' = [fn |-> "register_validator",
                             result |-> [regulation_name |-> r, validator_type |-> t,
                                         validator_func |-> f]]
    /\ UNCHANGED <<pid_in, cit_in, pid_out>>
    /\ UNCHANGED runVars

CallLookup ==
    /\ pc = "probe"
    /\ \E r \in RegisteredNames, t \in RegisteredTypes :
         probe_out' = [fn |-> "get_validator",
                       result |-> get_validator_of(probe_in, r, t)]
    /\ UNCHANGED <<pid_in, cit_in, pid_out, probe_in>>
    /\ UNCHANGED runVars

NextRegistry == CallRegister \/ CallLookup

SpecRegistry == InitRegistry /\ [][NextRegistry]_vars

LookupNames == RegisteredNames \cup {"Colombia", "IMS", None}

LookupTypes == RegisteredTypes \cup {"documents"}

LookupFields == {"personalid", "zip", "documents"}

\* a step of register_validator that is not a stuttering step
RegisterStep == probe_out'.fn = "register_validator" /\ probe_out' # probe_out

\* C30: a fresh registry answers with its built-in entries; register_validator(r, t, f)
\* makes get_validator(r, t) return f, changes no lookup of another
\* (regulation, type) pair, and leaves has_conditional_validation as it was
\* for every field unless t is 'conditional_fields'; so after any sequence of
\* registrations a lookup returns the latest registration or the built-in entry
C30_RegisterFrame ==
    /\ \A r \in LookupNames, t \in LookupTypes :
          get_validator_of(probe_in, r, t) = get_validator(r, t)
    /\ [][RegisterStep =>
            LET call == probe_out'.result
            IN  /\ \A r \in LookupNames, t \in LookupTypes :
                      get_validator_of(probe_in', r, t) =
                          IF r = call.regulation_name /\ t = call.validator_type
                          THEN call.validator_func
                          ELSE get_validator_of(probe_in, r, t)
                /\ call.validator_type # "conditional_fields" =>
                      \A r \in LookupNames, field \in LookupFields :
                          has_conditional_validation_of(probe_in', r, field) =
                              has_conditional_validation_of(probe_in, r, field)]_vars

\* a registry where Peru's personalid validator was replaced, a validator
\* was registered for a new regulation, and the other Peru entries and the
\* conditional field stand
C30_Witness ==
    /\ pc = "probe"
    /\ probe_out.fn = "register_validator"
    /\ get_validator_of(probe_in, "Peru", "personalid") = "validate_custom"
    /\ get_validator_of(probe_in, "Chile", "zip") = "validate_custom"
    /\ get_validator_of(probe_in, "Peru", "zip") = "validate_peru_zip"
    /\ get_validator_of(probe_in, "Peru", "documents") = "validate_peru_documents"
    /\ has_conditional_validation_of(probe_in, "Peru", "personalid").conditional

====
